---------------------------- MODULE Spec2Model ----------------------------
(***************************************************************************)
(* A model of the dominion DNS packet codec: the bounds-checked byte       *)
(* readers, the domain-name parser with compression pointers, the header   *)
(* codec, and the packet parser and serializer.                            *)
(*                                                                         *)
(* Three specifications share the variables below:                         *)
(*   SpecName    Name::parse run one loop iteration per step               *)
(*   SpecHeader  DnsHeader::try_from followed by DnsHeader::serialize      *)
(*   Spec        DnsPacket::try_from, Vec<u8>::from(&packet) and a second  *)
(*               DnsPacket::try_from of the serialized bytes               *)
(***************************************************************************)
EXTENDS Integers, Sequences, FiniteSets, Bags, TLC

VARIABLES
    build,      \* "debug" (overflow checks on) or "release" (wrapping)
    buff,       \* the byte slice handed to the parser
    nstart,     \* SpecName: the pos argument of Name::parse
    nst,        \* SpecName: the loop state of Name::parse
    hpc,        \* SpecHeader: "start", "parsed", "serialized"
    hres,       \* SpecHeader: result of DnsHeader::try_from
    hout,       \* SpecHeader: bytes written by DnsHeader::serialize
    pc,         \* Spec: where DnsPacket::try_from / the round trip stands
    round,      \* Spec: 1 = parsing the datagram, 2 = parsing the serialized bytes
    pos,        \* Spec: the pos local of DnsPacket::try_from
    pkt,        \* Spec: header and the four section vectors being filled
    trail,      \* Spec: history of <<section, start offset, returned size>>
    result,     \* Spec: what DnsPacket::try_from returned ("none" while running)
    first,      \* Spec: the packet and result of round 1
    out,        \* Spec: the serialized bytes
    tname,      \* SpecText: the Name being built or inspected
    tres,       \* SpecText: the last operation on tname and what it returned
    word,       \* SpecCodes: the u16 being converted
    conv,       \* SpecCodes: the conversions of word and their way back
    main,       \* SpecServe: where the owner of the Server stands
    typestate,  \* SpecServe: the S of the Server<S> that exists
    threads,    \* SpecServe: Server.threads
    socket,     \* SpecServe: Server.socket; Some holds the datagrams delivered, not yet received
    worker,     \* SpecServe: per worker thread, where serve_sth stands and its locals
    arrivals,   \* SpecServe: the datagrams clients have sent, and what try_from returned for each
    calls,      \* SpecServe: bag of ServerService::run calls made
    sent        \* SpecServe: bag of send_to calls made

vars == <<build, buff, nstart, nst, hpc, hres, hout,
          pc, round, pos, pkt, trail, result, first, out,
          tname, tres, word, conv, main, typestate, threads, socket, worker, arrivals,
          calls, sent>>

nameVars == <<nstart, nst>>
headerVars == <<hpc, hres, hout>>
packetVars == <<pc, round, pos, pkt, trail, result, first, out>>
textVars == <<tname, tres>>
codeVars == <<word, conv>>
serveVars == <<main, typestate, threads, socket, worker, arrivals, calls, sent>>
otherVars == <<textVars, codeVars, serveVars>>

-----------------------------------------------------------------------------
(* Program constants *)

MAX_JUMPS == 5
MAX_LABEL_SIZE == 63
MAX_NAME_SIZE == 255
HEADER_LEN == 12

Builds == {"debug", "release"}

-----------------------------------------------------------------------------
(* Results and errors *)

NoErr == [kind |-> "none", field |-> "", val |-> 0]

Err(kind, val) == [kind |-> kind, field |-> "", val |-> val]

HeaderFlagErr(field, val) == [kind |-> "HeaderFlag", field |-> field, val |-> val]

Ok(v) == [ok |-> TRUE, val |-> v, err |-> NoErr]

Fail(e) == [ok |-> FALSE, val |-> 0, err |-> e]

-----------------------------------------------------------------------------
(* Bit arithmetic on unsigned integers *)

RECURSIVE BitAnd(_, _)
BitAnd(a, b) ==
    IF a = 0 \/ b = 0 THEN 0
    ELSE (IF a % 2 = 1 /\ b % 2 = 1 THEN 1 ELSE 0) + 2 * BitAnd(a \div 2, b \div 2)

RECURSIVE BitOr(_, _)
BitOr(a, b) ==
    IF a = 0 THEN b
    ELSE IF b = 0 THEN a
    ELSE (IF a % 2 = 1 \/ b % 2 = 1 THEN 1 ELSE 0) + 2 * BitOr(a \div 2, b \div 2)

RECURSIVE BitXor(_, _)
BitXor(a, b) ==
    IF a = 0 THEN b
    ELSE IF b = 0 THEN a
    ELSE (IF a % 2 # b % 2 THEN 1 ELSE 0) + 2 * BitXor(a \div 2, b \div 2)

RECURSIVE Pow2(_)
Pow2(n) == IF n = 0 THEN 1 ELSE 2 * Pow2(n - 1)

RECURSIVE trailing_zeros(_)
trailing_zeros(mask) ==
    IF mask = 0 THEN 16
    ELSE IF mask % 2 = 1 THEN 0
    ELSE 1 + trailing_zeros(mask \div 2)

-----------------------------------------------------------------------------
(* binutils: checked big-endian readers and writers *)

InRange(b, from, n) == from + n <= Len(b)

safe_u8_read(b, p) ==
    IF p + 1 <= Len(b) THEN Ok(b[p + 1]) ELSE Fail(Err("OobRead", p))

safe_u16_read(b, p) ==
    IF InRange(b, p, 2) THEN Ok(b[p + 1] * 256 + b[p + 2])
    ELSE Fail(Err("OobRead", p))

safe_i32_read(b, p) ==
    IF InRange(b, p, 4)
    THEN LET top == IF b[p + 1] >= 128 THEN b[p + 1] - 256 ELSE b[p + 1]
         IN  Ok(top * 16777216 + b[p + 2] * 65536 + b[p + 3] * 256 + b[p + 4])
    ELSE Fail(Err("OobRead", p))

safe_ipv4_read(b, p) ==
    IF InRange(b, p, 4) THEN Ok(<<b[p + 1], b[p + 2], b[p + 3], b[p + 4]>>)
    ELSE Fail(Err("OobRead", p))

push_u16(target, n) == target \o <<n \div 256, n % 256>>

push_i32(target, n) ==
    LET top == n \div 16777216
        low == n - top * 16777216
    IN  target \o <<IF top < 0 THEN top + 256 ELSE top,
                   low \div 65536, (low \div 256) % 256, low % 256>>

-----------------------------------------------------------------------------
(* body/name.rs: domain names *)

IsAlpha(c) == (c >= 65 /\ c <= 90) \/ (c >= 97 /\ c <= 122)

IsDigit(c) == c >= 48 /\ c <= 57

\* valid_label without the test of the first byte.
valid_label_AnyFirst(label) ==
    /\ Len(label) >= 1
    /\ \A i \in 1..Len(label) :
          label[i] = 45 \/ IsDigit(label[i]) \/ IsAlpha(label[i])

valid_label(label) ==
    IF Len(label) >= 1 /\ IsAlpha(label[1])
    THEN Cardinality({i \in 2..Len(label) :
            ~(label[i] = 45 \/ IsDigit(label[i]) \/ IsAlpha(label[i]))}) = 0
    ELSE FALSE

NewName == [labels |-> <<>>, len |-> 0]

RECURSIVE Reverse(_)
Reverse(s) == IF s = <<>> THEN <<>> ELSE Reverse(Tail(s)) \o <<Head(s)>>

\* u8 addition: a debug build aborts on overflow, a release build wraps.
AddU8(a, b) ==
    IF a + b <= 255 THEN [panic |-> FALSE, val |-> a + b]
    ELSE IF build = "debug" THEN [panic |-> TRUE, val |-> 0]
    ELSE [panic |-> FALSE, val |-> (a + b) % 256]

push_bytes(name, bytes) ==
    IF valid_label(bytes)
    THEN LET inc == AddU8(Len(bytes) % 256, 1)
             sum == AddU8(name.len, inc.val)
         IN  IF inc.panic \/ sum.panic
             THEN [status |-> "panic", name |-> name, err |-> NoErr]
             ELSE [status |-> "ok",
                   name |-> [labels |-> Append(name.labels, bytes), len |-> sum.val],
                   err |-> NoErr]
    ELSE [status |-> "err", name |-> name, err |-> Err("LabelContent", 0)]

\* read_label_metadata taking the octet 64 for a label size.
read_label_metadata_Wide(b, p) ==
    LET r == safe_u8_read(b, p) IN
    IF ~r.ok THEN r
    ELSE IF r.val = 0 THEN Ok([tag |-> "End", n |-> 0])
    ELSE IF r.val >= 1 /\ r.val <= 64 THEN Ok([tag |-> "Size", n |-> r.val])
    ELSE IF r.val >= 192 /\ r.val <= 255
         THEN LET w == safe_u16_read(b, p) IN
              IF ~w.ok THEN w
              ELSE Ok([tag |-> "Pointer", n |-> BitXor(w.val, 49152)])
    ELSE Fail(Err("LabelPrefix", r.val))

read_label_metadata(b, p) ==
    LET r == safe_u8_read(b, p) IN
    IF ~r.ok THEN r
    ELSE IF r.val = 0 THEN Ok([tag |-> "End", n |-> 0])
    ELSE IF r.val >= 1 /\ r.val <= 63 THEN Ok([tag |-> "Size", n |-> r.val])
    ELSE IF r.val >= 192 /\ r.val <= 255
         THEN LET w == safe_u16_read(b, p) IN
              IF ~w.ok THEN w
              ELSE Ok([tag |-> "Pointer", n |-> BitXor(w.val, 49152)])
    ELSE Fail(Err("LabelPrefix", r.val))

SubSeqFrom(b, from, to) == [i \in 1..(to - from) |-> b[from + i]]

\* The state of the loop of Name::parse.
NameInit(p) ==
    [pos |-> p, size |-> 0, jumps |-> 0, name |-> NewName,
     status |-> "run", err |-> NoErr]

NameFail(st, e) == [st EXCEPT !.status = "err", !.err = e]

NamePushed(st, s, pushed, grow) ==
    IF pushed.status = "panic" THEN [st EXCEPT !.status = "panic"]
    ELSE IF pushed.status = "err" THEN NameFail(st, pushed.err)
    ELSE [st EXCEPT !.name = pushed.name,
                    !.pos = st.pos + s + 1,
                    !.size = IF grow THEN st.size + s + 1 ELSE st.size]

\* TooManyJumps letting one more jump through.
TooManyJumps_OneMore(st) == st.jumps > MAX_JUMPS + 1

TooManyJumps(st) == st.jumps > MAX_JUMPS

\* IsInvalidJump accepting a pointer to itself.
IsInvalidJump_Strict(m, st) == m.tag = "Pointer" /\ m.n > st.pos

IsInvalidJump(m, st) == m.tag = "Pointer" /\ m.n >= st.pos

LabelTooLong(m) == m.tag = "Size" /\ m.n > MAX_LABEL_SIZE

LabelOverflowsBuffer(b, m, st) == m.tag = "Size" /\ Len(b) <= st.pos + m.n

NameTooLong(m, st) == m.tag = "Size" /\ st.name.len + m.n > MAX_NAME_SIZE

\* FollowPointer counting the two bytes of every pointer.
FollowPointer_AlwaysCount(st, ptr) ==
    [st EXCEPT !.pos = ptr, !.size = st.size + 2, !.jumps = st.jumps + 1]

FollowPointer(st, ptr) ==
    [st EXCEPT !.pos = ptr,
               !.size = IF st.jumps = 0 THEN st.size + 2 ELSE st.size,
               !.jumps = st.jumps + 1]

NameEnd(st) ==
    [st EXCEPT !.name = [st.name EXCEPT !.labels = Reverse(st.name.labels)],
               !.size = IF st.jumps = 0 THEN st.size + 1 ELSE st.size,
               !.status = "ok"]

\* One iteration of the loop of Name::parse.
NameStep(b, st) ==
    IF TooManyJumps(st) THEN NameFail(st, Err("ExcesiveJumps", st.jumps))
    ELSE
    LET r == read_label_metadata(b, st.pos)
        m == r.val
    IN
    IF ~r.ok THEN NameFail(st, r.err)
    ELSE IF IsInvalidJump(m, st) THEN NameFail(st, Err("InvalidJump", 0))
    ELSE IF LabelTooLong(m) THEN NameFail(st, Err("LabelLength", m.n))
    ELSE IF LabelOverflowsBuffer(b, m, st) THEN NameFail(st, Err("LabelLength", m.n))
    ELSE IF NameTooLong(m, st) THEN NameFail(st, Err("NameLength", st.name.len + m.n))
    ELSE IF m.tag = "Size"
         THEN NamePushed(st, m.n,
                         push_bytes(st.name, SubSeqFrom(b, st.pos + 1, st.pos + m.n + 1)),
                         st.jumps = 0)
    ELSE IF m.tag = "Pointer" THEN FollowPointer(st, m.n)
    ELSE NameEnd(st)

\* The value of a let binding: the one element of { f(x) : x \in { v } }.
Let(bound) == CHOOSE r \in bound : TRUE

RECURSIVE NameRun(_, _)
NameRun(b, st) ==
    IF st.status = "run" THEN Let({ NameRun(b, next) : next \in { NameStep(b, st) } })
    ELSE st

\* Name::parse(buff, pos): the final loop state; on "ok", (name, size).
NameParse(b, p) == NameRun(b, NameInit(p))

\* iter_human without .rev().
iter_human_Hierarchy(name) == name.labels

\* Name::iter_human: iter_hierarchy().rev().
iter_human(name) == Reverse(name.labels)

RECURSIVE SerializeLabels(_)
SerializeLabels(ls) ==
    IF ls = <<>> THEN <<>>
    ELSE <<Len(Head(ls)) % 256>> \o Head(ls) \o SerializeLabels(Tail(ls))

\* Name::serialize walking the labels TLD first.
NameSerialize_Hierarchy(name) == SerializeLabels(name.labels) \o <<0>>

\* Name::serialize: the bytes appended to the packet.
NameSerialize(name) == SerializeLabels(iter_human(name)) \o <<0>>

-----------------------------------------------------------------------------
(* Inputs of Name::parse *)

MaxChunks == 3
MaxChain == 6
MaxLong == 4

\* Pieces of wire names: the label "a", the name "a", the label "b1", the
\* digit-first label "1", the terminator, pointers to offsets 0 and 2 and to
\* offset 16383, a label whose size runs past its bytes, a reserved prefix.
NameChunks ==
    { <<1, 97>>, <<1, 97, 0>>, <<2, 98, 49>>, <<1, 49>>, <<0>>, <<192, 0>>,
      <<192, 2>>, <<255, 255>>, <<3, 97>>, <<64>> }

RECURSIVE ChunkSeqs(_, _)
ChunkSeqs(chunks, n) ==
    IF n = 0 THEN { <<>> }
    ELSE LET shorter == ChunkSeqs(chunks, n - 1)
         IN  shorter \cup { s \o c : s \in shorter, c \in chunks }

ChunkInputs ==
    { [b |-> s, p |-> q] : s \in ChunkSeqs(NameChunks, MaxChunks), q \in 0..3 }

\* Every value of a length octet, at offset 3 behind the name "a", followed
\* by one of three second bytes and by "a" and a terminator.
SweepSecond == {0, 2, 97}

SweepInputs ==
    { [b |-> <<1, 97, 0, o, c, 97, 0>>, p |-> 3] : o \in 0..255, c \in SweepSecond }

\* A base name followed by k pointers, each to the item before it.
RECURSIVE Chain(_, _)
Chain(base, k) ==
    IF k = 0 THEN base
    ELSE LET prev == Chain(base, k - 1)
         IN  prev \o <<192, IF k = 1 THEN 0 ELSE Len(prev) - 2>>

ChainInputs ==
    { [b |-> Chain(base, k), p |-> Len(Chain(base, k)) - 2] :
        base \in { <<0, 0>>, <<1, 97, 0>> }, k \in 0..MaxChain }

\* k labels of 62 or 63 bytes, then a terminator or a pointer to offset 0.
LongLabel(s) == <<s>> \o [i \in 1..s |-> 97]

RECURSIVE LongSeqs(_)
LongSeqs(k) ==
    IF k = 0 THEN { <<>> }
    ELSE LET shorter == LongSeqs(k - 1)
         IN  shorter \cup { s \o LongLabel(n) : s \in shorter, n \in {62, 63} }

LongInputs ==
    { [b |-> s \o t, p |-> q] :
        s \in LongSeqs(MaxLong), t \in { <<0>>, <<192, 0>> }, q \in {0, 64} }

NameInputs == ChunkInputs \cup SweepInputs \cup ChainInputs \cup LongInputs

-----------------------------------------------------------------------------
(* SpecName: Name::parse(buff, nstart), one loop iteration per step *)

HeaderIdle == hpc = "idle" /\ hres = Fail(NoErr) /\ hout = <<>>

EmptyPacket ==
    [header |-> [id |-> 0, flags |-> 0, questions |-> 0, answers |-> 0,
                 authority |-> 0, additional |-> 0],
     questions |-> <<>>, answers |-> <<>>, authority |-> <<>>, additional |-> <<>>]

NoResult == [status |-> "none", err |-> NoErr]

PacketIdle ==
    /\ pc = "idle" /\ round = 0 /\ pos = 0 /\ pkt = EmptyPacket /\ trail = <<>>
    /\ result = NoResult /\ first = EmptyPacket /\ out = <<>>

TextIdle == tname = NewName /\ tres = [op |-> "idle"]

CodeIdle == word = 0 /\ conv = [op |-> "idle"]

ServeIdle ==
    /\ main = "idle" /\ typestate = "None" /\ threads = 0
    /\ socket = [some |-> FALSE, val |-> <<>>] /\ worker = <<>> /\ arrivals = <<>>
    /\ calls = EmptyBag /\ sent = EmptyBag

OthersIdle == TextIdle /\ CodeIdle /\ ServeIdle

InitName ==
    /\ build \in Builds
    /\ \E i \in NameInputs : buff = i.b /\ nstart = i.p
    /\ nst = NameInit(nstart)
    /\ HeaderIdle
    /\ PacketIdle
    /\ OthersIdle

NameLoop ==
    /\ nst.status = "run"
    /\ nst' = NameStep(buff, nst)
    /\ UNCHANGED <<build, buff, nstart, headerVars, packetVars, otherVars>>

NextName == NameLoop

SpecName == InitName /\ [][NextName]_vars

-----------------------------------------------------------------------------
(* Properties of Name::parse, checked under SpecName *)

\* The loop is about to read the length octet at nst.pos.
ReadsOctet == nst.status = "run" /\ nst.jumps <= MAX_JUMPS /\ nst.pos < Len(buff)

Octet == buff[nst.pos + 1]

\* The low 14 bits of the big-endian word at nst.pos.
PointerTarget == (Octet * 256 + buff[nst.pos + 2]) % 16384

ReadsPointer == ReadsOctet /\ Octet >= 192 /\ nst.pos + 1 < Len(buff)

FailsWith(st, kind, val) == st.status = "err" /\ st.err = Err(kind, val)

\* C6: every compression pointer that is followed leads strictly backward;
\* a pointer read at any point of the parse whose target is at or after its
\* own offset ends the parse with InvalidJump.
C6_BackwardJumpsOnly ==
    [][ /\ (nst.status = "run" /\ nst'.jumps > nst.jumps) => nst'.pos < nst.pos
        /\ ReadsPointer =>
              IF PointerTarget >= nst.pos
              THEN FailsWith(nst', "InvalidJump", 0)
              ELSE nst'.status = "run" /\ nst'.pos = PointerTarget
                   /\ nst'.jumps = nst.jumps + 1 ]_vars

\* A pointer reached after a jump was rejected as not strictly backward.
C6_Witness == FailsWith(nst, "InvalidJump", 0) /\ nst.jumps >= 1

\* C7: no name is returned after more than MAX_JUMPS pointers; the sixth
\* pointer followed ends the parse with ExcesiveJumps before anything is
\* read at its target, and ExcesiveJumps is returned in no other case.
C7_JumpLimit ==
    /\ nst.jumps <= MAX_JUMPS + 1
    /\ nst.status = "ok" => nst.jumps <= MAX_JUMPS
    /\ (nst.status # "run" /\ nst.jumps > MAX_JUMPS) =>
          FailsWith(nst, "ExcesiveJumps", MAX_JUMPS + 1)
    /\ (nst.status = "err" /\ nst.err.kind = "ExcesiveJumps") => nst.jumps > MAX_JUMPS

\* A name that needs exactly MAX_JUMPS pointers is returned.
C7_Witness == nst.status = "ok" /\ nst.jumps = MAX_JUMPS

\* The bytes a name occupies at offset p: its literal labels up to the first
\* pointer (two bytes) or the terminator (one byte).
RECURSIVE OccupiedAt(_, _)
OccupiedAt(b, p) ==
    IF p >= Len(b) THEN 0
    ELSE IF b[p + 1] = 0 THEN 1
    ELSE IF b[p + 1] <= 63 THEN b[p + 1] + 1 + OccupiedAt(b, p + b[p + 1] + 1)
    ELSE 2

\* C8: on success bytes_consumed is the number of bytes the name occupies at
\* nstart, and nstart + bytes_consumed does not pass the end of the buffer.
C8_BytesConsumed ==
    nst.status = "ok" =>
        /\ nst.size = OccupiedAt(buff, nstart)
        /\ nstart + nst.size <= Len(buff)

\* A name with a literal label, then a pointer, then labels behind the pointer.
C8_Witness ==
    /\ nst.status = "ok" /\ nst.jumps >= 1 /\ nst.size > 2
    /\ Len(nst.name.labels) >= 2

RECURSIVE LabelBytes(_)
LabelBytes(ls) == IF ls = <<>> THEN 0 ELSE Len(Head(ls)) + 1 + LabelBytes(Tail(ls))

\* C9: the length counter of the name is the running total of label bytes
\* plus one per label, it never passes 255 (no abort, no wrap), and a name
\* that is returned has serialized length at most MAX_NAME_SIZE.
C9_NameLengthBounded ==
    /\ nst.status # "panic"
    /\ nst.name.len = LabelBytes(nst.name.labels)
    /\ nst.status = "ok" => LabelBytes(nst.name.labels) + 1 <= MAX_NAME_SIZE

\* C10: the length octet decides the step: 0 ends the name, 1..63 is a
\* literal label that must lie inside the buffer (else LabelLength), 64..191
\* is LabelPrefix, 192..255 is a pointer to the low 14 bits of the word.
C10_OctetClasses ==
    [][ ReadsOctet =>
          /\ Octet = 0 => nst'.status = "ok"
          /\ (Octet >= 1 /\ Octet <= 63) =>
                IF nst.pos + Octet >= Len(buff)
                THEN FailsWith(nst', "LabelLength", Octet)
                ELSE \/ /\ nst'.status = "run"
                        /\ nst'.pos = nst.pos + Octet + 1
                        /\ nst'.name.labels =
                              Append(nst.name.labels,
                                     SubSeq(buff, nst.pos + 2, nst.pos + Octet + 1))
                     \/ nst'.status = "err" /\ nst'.err.kind \in {"NameLength", "LabelContent"}
                     \/ nst'.status = "panic"
          /\ (Octet >= 64 /\ Octet <= 191) => FailsWith(nst', "LabelPrefix", Octet)
          /\ Octet >= 192 =>
                IF nst.pos + 1 >= Len(buff)
                THEN FailsWith(nst', "OobRead", nst.pos)
                ELSE \/ FailsWith(nst', "InvalidJump", 0)
                     \/ nst'.status = "run" /\ nst'.pos = PointerTarget ]_vars

\* The reserved octet 191 was rejected, and so was a label running past the buffer.
C10_Witness ==
    \/ FailsWith(nst, "LabelPrefix", 191)
    \/ FailsWith(nst, "LabelLength", 63) /\ Len(nst.name.labels) >= 1

-----------------------------------------------------------------------------
(* header.rs: the 12-byte header and its flag word *)

mask_shift(mask, n) == BitAnd(n, mask) \div Pow2(trailing_zeros(mask))

\* unshift leaving the reserved z bit out of the word.
unshift_DropsZ(mask, n) ==
    IF mask = 64 THEN 0 ELSE (n * Pow2(trailing_zeros(mask))) % 65536

unshift(mask, n) == (n * Pow2(trailing_zeros(mask))) % 65536

\* The fields of Flags in declaration order: the mask, the enum, its
\* variants with their discriminants, and whether unknown values are an
\* error (u16_flag_reserved!) or held impossible (u16_flag!).
FlagFields ==
    << [field |-> "qr", mask |-> 32768, typ |-> "QueryResponse", reserved |-> FALSE,
        variants |-> { <<"Query", 0>>, <<"Response", 1>> }],
       [field |-> "opcode", mask |-> 30720, typ |-> "OpCode", reserved |-> TRUE,
        variants |-> { <<"Query", 0>>, <<"Iquery", 1>>, <<"Status", 2>>,
                       <<"Notify", 4>>, <<"Update", 5>>, <<"Dso", 6>> }],
       [field |-> "aa", mask |-> 1024, typ |-> "AuthoritativeAnswer", reserved |-> FALSE,
        variants |-> { <<"NonAuthoritative", 0>>, <<"Authoritative", 1>> }],
       [field |-> "tc", mask |-> 512, typ |-> "TrunCation", reserved |-> FALSE,
        variants |-> { <<"NotTruncated", 0>>, <<"Truncated", 1>> }],
       [field |-> "rd", mask |-> 256, typ |-> "RecursionDesired", reserved |-> FALSE,
        variants |-> { <<"NotDesired", 0>>, <<"Desired", 1>> }],
       [field |-> "ra", mask |-> 128, typ |-> "RecursionAvailable", reserved |-> FALSE,
        variants |-> { <<"NotAvailable", 0>>, <<"Available", 1>> }],
       [field |-> "z", mask |-> 64, typ |-> "Zero", reserved |-> FALSE,
        variants |-> { <<"Zero", 0>>, <<"Reserved", 1>> }],
       [field |-> "ad", mask |-> 32, typ |-> "AuthenticData", reserved |-> FALSE,
        variants |-> { <<"NotAuthentic", 0>>, <<"Authentic", 1>> }],
       [field |-> "cd", mask |-> 16, typ |-> "CheckingDisabled", reserved |-> FALSE,
        variants |-> { <<"Enabled", 0>>, <<"Disabled", 1>> }],
       [field |-> "rcode", mask |-> 15, typ |-> "ResponseCode", reserved |-> TRUE,
        variants |-> { <<"NoError", 0>>, <<"FormErr", 1>>, <<"ServFail", 2>>,
                       <<"NXDomain", 3>>, <<"NotImp", 4>>, <<"Refused", 5>> }] >>

Panic == [ok |-> FALSE, val |-> 0, err |-> [kind |-> "panic", field |-> "", val |-> 0]]

IsPanic(r) == ~r.ok /\ r.err.kind = "panic"

\* From<u16> / TryFrom<u16> of one flag enum: the variant whose discriminant
\* is the masked and shifted value.
FlagFrom(f, n) ==
    LET v == mask_shift(f.mask, n)
        hit == { x \in f.variants : x[2] = v }
    IN  IF hit # {} THEN Ok((CHOOSE x \in hit : TRUE)[1])
        ELSE IF f.reserved THEN Fail(HeaderFlagErr(f.typ, v))
        ELSE Panic

\* From<enum> for u16: the discriminant shifted back under the mask.
FlagInto(f, variant) ==
    unshift(f.mask, (CHOOSE x \in f.variants : x[1] = variant)[2])

\* TryFrom<u16> for Flags: the fields are converted in declaration order and
\* the first failure is returned.
RECURSIVE FlagsFromRec(_, _, _)
FlagsFromRec(n, i, acc) ==
    IF i > Len(FlagFields) THEN Ok(acc)
    ELSE LET r == FlagFrom(FlagFields[i], n) IN
         IF ~r.ok THEN r ELSE FlagsFromRec(n, i + 1, Append(acc, r.val))

FlagsTryFrom(n) == FlagsFromRec(n, 1, <<>>)

RECURSIVE FlagsIntoRec(_, _)
FlagsIntoRec(flags, i) ==
    IF i > Len(FlagFields) THEN 0
    ELSE BitOr(FlagInto(FlagFields[i], flags[i]), FlagsIntoRec(flags, i + 1))

\* From<Flags> for u16.
FlagsInto(flags) == FlagsIntoRec(flags, 1)

\* The length test of DnsHeader::try_from, off by one.
HeaderTooShort_OffByOne(bytes) == Len(bytes) <= HEADER_LEN

HeaderTooShort(bytes) == Len(bytes) < HEADER_LEN

\* TryFrom<&[u8]> for DnsHeader.
HeaderTryFromBytes(bytes) ==
    IF HeaderTooShort(bytes) THEN Fail(Err("HeaderLength", Len(bytes)))
    ELSE
    LET id == safe_u16_read(bytes, 0)
        w == safe_u16_read(bytes, 2)
        fl == IF w.ok THEN FlagsTryFrom(w.val) ELSE w
        qd == safe_u16_read(bytes, 4)
        an == safe_u16_read(bytes, 6)
        ns == safe_u16_read(bytes, 8)
        ar == safe_u16_read(bytes, 10)
    IN  IF ~id.ok THEN id
        ELSE IF ~fl.ok THEN fl
        ELSE IF ~qd.ok THEN qd
        ELSE IF ~an.ok THEN an
        ELSE IF ~ns.ok THEN ns
        ELSE IF ~ar.ok THEN ar
        ELSE Ok([id |-> id.val, flags |-> fl.val, questions |-> qd.val,
                 answers |-> an.val, authority |-> ns.val, additional |-> ar.val])

\* DnsHeader::serialize.
HeaderSerializeTo(target, h) ==
    push_u16(push_u16(push_u16(push_u16(push_u16(push_u16(target,
        h.id), FlagsInto(h.flags)), h.questions), h.answers), h.authority), h.additional)

-----------------------------------------------------------------------------
(* SpecHeader: DnsHeader::try_from(buff), then DnsHeader::serialize *)

MaxHeaderExtra == 2

\* Every flag word, in the header of the unit tests (id 0x1234, counts 1..4).
FlagSweepInputs ==
    { <<18, 52, w \div 256, w % 256, 0, 1, 0, 2, 0, 3, 0, 4>> : w \in 0..65535 }

HeaderWords == {0, 258, 65535}

HeaderFlagSamples == {0, 64, 34176, 47093, 6144, 15, 65535}

\* Sampled id and counts with sampled flag words.
HeaderWordInputs ==
    { push_u16(push_u16(push_u16(push_u16(push_u16(push_u16(<<>>,
        id), w), qd), an), ns), ar) :
        id \in HeaderWords, w \in HeaderFlagSamples, qd \in HeaderWords,
        an \in HeaderWords, ns \in HeaderWords, ar \in HeaderWords }

\* Buffers of every length from 0 to HEADER_LEN + MaxHeaderExtra.
HeaderLengthInputs ==
    { [i \in 1..n |-> IF i = 3 THEN f ELSE IF i = 4 THEN 5 ELSE i] :
        n \in 0..(HEADER_LEN + MaxHeaderExtra), f \in {0, 24, 128} }

HeaderInputs == FlagSweepInputs \cup HeaderWordInputs \cup HeaderLengthInputs

NameIdle == nstart = 0 /\ nst = NameInit(0)

InitHeader ==
    /\ build \in Builds
    /\ buff \in HeaderInputs
    /\ hpc = "start" /\ hres = Fail(NoErr) /\ hout = <<>>
    /\ NameIdle
    /\ PacketIdle
    /\ OthersIdle

HeaderTryFrom ==
    /\ hpc = "start"
    /\ hres' = HeaderTryFromBytes(buff)
    /\ hpc' = "parsed"
    /\ UNCHANGED <<build, buff, hout, nameVars, packetVars, otherVars>>

HeaderSerialize ==
    /\ hpc = "parsed" /\ hres.ok
    /\ hout' = HeaderSerializeTo(<<>>, hres.val)
    /\ hpc' = "serialized"
    /\ UNCHANGED <<build, buff, hres, nameVars, packetVars, otherVars>>

NextHeader == HeaderTryFrom \/ HeaderSerialize

SpecHeader == InitHeader /\ [][NextHeader]_vars

-----------------------------------------------------------------------------
(* Properties of the header codec, checked under SpecHeader *)

WordAt(b, p) == b[p + 1] * 256 + b[p + 2]

OpcodeBits(w) == (w \div 2048) % 16

RcodeBits(w) == w % 16

KnownOpcodes == {0, 1, 2, 4, 5, 6}

KnownRcodes == 0..5

\* C4: a header that DnsHeader::try_from accepts serializes to the same 12
\* bytes, and every flag word with a known opcode and rcode is accepted,
\* whatever its one-bit flags.
C4_HeaderRoundTrip ==
    /\ hpc = "serialized" => hout = SubSeq(buff, 1, HEADER_LEN)
    /\ (hpc = "parsed" /\ Len(buff) >= HEADER_LEN
        /\ OpcodeBits(WordAt(buff, 2)) \in KnownOpcodes
        /\ RcodeBits(WordAt(buff, 2)) \in KnownRcodes) =>
           hres.ok /\ FlagsInto(hres.val.flags) = WordAt(buff, 2)

\* The flag word 0xB7F5 (every one-bit flag set, opcode Dso, rcode Refused)
\* went through parse and serialize.
C4_Witness == hpc = "serialized" /\ WordAt(buff, 2) = 47093 /\ Len(hout) = HEADER_LEN

\* C5: HeaderLength(n) exactly for n < 12; otherwise failure exactly for an
\* unknown opcode or rcode, as HeaderFlag with the enum and the field value;
\* on success id and the counts are the words at offsets 0, 4, 6, 8, 10.
C5_HeaderErrors ==
    hpc # "start" =>
        IF Len(buff) < HEADER_LEN
        THEN hres = Fail(Err("HeaderLength", Len(buff)))
        ELSE LET w == WordAt(buff, 2)
                 badOp == OpcodeBits(w) \notin KnownOpcodes
                 badRc == RcodeBits(w) \notin KnownRcodes
             IN  IF badOp \/ badRc
                 THEN /\ ~hres.ok
                      /\ \/ badOp /\ hres.err = HeaderFlagErr("OpCode", OpcodeBits(w))
                         \/ badRc /\ hres.err = HeaderFlagErr("ResponseCode", RcodeBits(w))
                 ELSE /\ hres.ok
                      /\ hres.val.id = WordAt(buff, 0)
                      /\ hres.val.questions = WordAt(buff, 4)
                      /\ hres.val.answers = WordAt(buff, 6)
                      /\ hres.val.authority = WordAt(buff, 8)
                      /\ hres.val.additional = WordAt(buff, 10)

\* A header with the reserved z bit set and all-ones id and counts was accepted.
C5_Witness ==
    /\ hpc = "parsed" /\ hres.ok /\ hres.val.flags[7] = "Reserved"
    /\ hres.val.id = 65535 /\ hres.val.additional = 65535

-----------------------------------------------------------------------------
(* body.rs: types, classes, questions and resource records *)

TypeTable == { <<"A", 1>>, <<"Ns", 2>>, <<"Cname", 5>>, <<"Mx", 15>> }

QTypeTable == TypeTable \cup { <<"All", 255>> }

ClassTable == { <<"IN", 1>>, <<"CS", 2>>, <<"CH", 3>>, <<"HS", 4>>, <<"Any", 255>> }

\* From<u16> for an enum with an Unknown(u16) variant.
CodeFrom(table, value) ==
    LET hit == { x \in table : x[2] = value }
    IN  IF hit # {} THEN [variant |-> (CHOOSE x \in hit : TRUE)[1], n |-> 0]
        ELSE [variant |-> "Unknown", n |-> value]

\* From<enum> for u16 giving 0 for Unknown(n).
CodeInto_DropsUnknown(table, code) ==
    IF code.variant = "Unknown" THEN 0
    ELSE (CHOOSE x \in table : x[1] = code.variant)[2]

\* From<enum> for u16.
CodeInto(table, code) ==
    IF code.variant = "Unknown" THEN code.n
    ELSE (CHOOSE x \in table : x[1] = code.variant)[2]

TypeFrom(value) == CodeFrom(TypeTable, value)

QTypeFrom(value) == CodeFrom(QTypeTable, value)

ClassFrom(value) == CodeFrom(ClassTable, value)

\* What a parse function returns: a value and the size it took, an error,
\* or a panic.
Parsed(v, size) == [status |-> "ok", val |-> v, size |-> size, err |-> NoErr]

ParseErr(e) == [status |-> "err", val |-> 0, size |-> 0, err |-> e]

ParsePanic == [status |-> "panic", val |-> 0, size |-> 0, err |-> NoErr]

\* The ? operator on the result of Name::parse.
NameOutcome(n) == IF n.status = "panic" THEN ParsePanic ELSE ParseErr(n.err)

\* Question::parse.
QuestionParse(b, start) ==
    Let({
        LET n == start + nm.size
            qtype == safe_u16_read(b, n)
            class == safe_u16_read(b, n + 2)
        IN  IF nm.status # "ok" THEN NameOutcome(nm)
            ELSE IF ~qtype.ok THEN ParseErr(qtype.err)
            ELSE IF ~class.ok THEN ParseErr(class.err)
            ELSE Parsed([name |-> nm.name, qtype |-> QTypeFrom(qtype.val),
                         class |-> ClassFrom(class.val)], nm.size + 4)
          : nm \in { NameParse(b, start) } })

\* Question::serialize.
QuestionSerialize(packet, q) ==
    push_u16(push_u16(packet \o NameSerialize(q.name),
                      CodeInto(QTypeTable, q.qtype)), CodeInto(ClassTable, q.class))

\* RecordPreamble::parse.
PreambleParse(b, p) ==
    Let({
        LET n == nm.size + p
            rrtype == safe_u16_read(b, n)
            class == safe_u16_read(b, n + 2)
            ttl == safe_i32_read(b, n + 4)
            rdlen == safe_u16_read(b, n + 8)
        IN  IF nm.status # "ok" THEN NameOutcome(nm)
            ELSE IF ~rrtype.ok THEN ParseErr(rrtype.err)
            ELSE IF ~class.ok THEN ParseErr(class.err)
            ELSE IF ~ttl.ok THEN ParseErr(ttl.err)
            ELSE IF ~rdlen.ok THEN ParseErr(rdlen.err)
            ELSE Parsed([name |-> nm.name, rrtype |-> TypeFrom(rrtype.val),
                         class |-> ClassFrom(class.val), ttl |-> ttl.val,
                         rdlen |-> rdlen.val], nm.size + 10)
          : nm \in { NameParse(b, p) } })

\* RecordPreamble::serialize.
PreambleSerialize(packet, pre) ==
    push_u16(push_i32(push_u16(push_u16(packet \o NameSerialize(pre.name),
        CodeInto(TypeTable, pre.rrtype)), CodeInto(ClassTable, pre.class)),
        pre.ttl), pre.rdlen)

NoName == NewName

RData(variant, addr, name, preference) ==
    [variant |-> variant, addr |-> addr, name |-> name, preference |-> preference]

\* RecordData::parse.
RecordDataParse(b, p, rrtype) ==
    IF rrtype.variant = "A"
    THEN LET ip == safe_ipv4_read(b, p) IN
         IF ~ip.ok THEN ParseErr(ip.err)
         ELSE Parsed(RData("A", ip.val, NoName, 0), 0)
    ELSE IF rrtype.variant \in {"Ns", "Cname"}
    THEN Let({
             IF nm.status # "ok" THEN NameOutcome(nm)
             ELSE Parsed(RData(rrtype.variant, <<>>, nm.name, 0), 0)
          : nm \in { NameParse(b, p) } })
    ELSE IF rrtype.variant = "Mx"
    THEN Let({
             LET preference == safe_u16_read(b, p) IN
             IF nm.status # "ok" THEN NameOutcome(nm)
             ELSE IF ~preference.ok THEN ParseErr(preference.err)
             ELSE Parsed(RData("Mx", <<>>, nm.name, preference.val), 0)
          : nm \in { NameParse(b, p + 2) } })
    ELSE ParsePanic

\* RecordData::serialize; the Unknown arm is todo!().
RecordDataSerialize(packet, data) ==
    IF data.variant = "A" THEN packet \o data.addr
    ELSE IF data.variant \in {"Ns", "Cname"} THEN packet \o NameSerialize(data.name)
    ELSE IF data.variant = "Mx"
         THEN push_u16(packet, data.preference) \o NameSerialize(data.name)
    ELSE packet

\* The size ResourceRecord::parse returns.
RecordSize(preambleSize, rdlen) == preambleSize + rdlen

\* ResourceRecord::parse.
ResourceRecordParse(b, p) ==
    Let({
        IF pre.status # "ok" THEN pre
        ELSE Let({
                 IF data.status # "ok" THEN data
                 ELSE Parsed([preamble |-> pre.val, data |-> data.val],
                             RecordSize(pre.size, pre.val.rdlen))
                 : data \in { RecordDataParse(b, p + pre.size, pre.val.rrtype) } })
        : pre \in { PreambleParse(b, p) } })

\* ResourceRecord::serialize.
ResourceRecordSerialize(packet, rr) ==
    RecordDataSerialize(PreambleSerialize(packet, rr.preamble), rr.data)

RECURSIVE SerializeAll(_, _, _)
SerializeAll(packet, items, isQuestion) ==
    IF items = <<>> THEN packet
    ELSE SerializeAll(IF isQuestion THEN QuestionSerialize(packet, Head(items))
                      ELSE ResourceRecordSerialize(packet, Head(items)),
                      Tail(items), isQuestion)

\* From<&DnsPacket> for Vec<u8>.
PacketSerialize(p) ==
    SerializeAll(SerializeAll(SerializeAll(SerializeAll(
        HeaderSerializeTo(<<>>, p.header),
        p.questions, TRUE), p.answers, FALSE), p.authority, FALSE), p.additional, FALSE)

-----------------------------------------------------------------------------
(* Spec: DnsPacket::try_from(buff), Vec::from(&packet), and try_from again *)

MaxItems == 3

\* id 0x1234, a standard query with RD set, and the four section counts.
PacketHeader(qd, an, ns, ar) == <<18, 52, 1, 0, 0, qd, 0, an, 0, ns, 0, ar>>

\* "a" A IN; a name compressed to offset 12 with qtype All and class Any.
QuestionChunks ==
    { <<1, 97, 0, 0, 1, 0, 1>>,
      <<192, 12, 0, 255, 0, 255>> }

\* An A record with a compressed owner; an NS record whose RDATA is a
\* pointer; a CNAME with a literal RDATA name; an MX whose exchange is a
\* pointer; a TXT record (a type body.rs has no variant for).
RecordChunks ==
    { <<192, 12, 0, 1, 0, 1, 0, 0, 1, 44, 0, 4, 1, 2, 3, 4>>,
      <<1, 98, 0, 0, 2, 0, 1, 255, 255, 255, 255, 0, 2, 192, 12>>,
      <<0, 0, 5, 0, 3, 0, 0, 0, 0, 0, 3, 1, 99, 0>>,
      <<192, 12, 0, 15, 0, 1, 0, 0, 0, 1, 0, 4, 0, 10, 192, 12>>,
      <<0, 0, 16, 0, 1, 0, 0, 0, 0, 0, 0>> }

Sections == <<"questions", "answers", "authority", "additional">>

Slots ==
    { <<1, c>> : c \in QuestionChunks } \cup
    { <<k, c>> : k \in 2..4, c \in RecordChunks }

SlotSeqs(n) ==
    { f \in [1..n -> Slots] : \A i \in 1..(n - 1) : f[i][1] <= f[i + 1][1] }

RECURSIVE SlotBytes(_)
SlotBytes(f) == IF f = <<>> THEN <<>> ELSE Head(f)[2] \o SlotBytes(Tail(f))

SlotCount(f, k) == Cardinality({ i \in 1..Len(f) : f[i][1] = k })

SlotPacket(f) ==
    PacketHeader(SlotCount(f, 1), SlotCount(f, 2), SlotCount(f, 3), SlotCount(f, 4))
        \o SlotBytes(f)

ItemPackets == UNION { { SlotPacket(f) : f \in SlotSeqs(n) } : n \in 0..MaxItems }

HelloWorldCom ==
    <<5, 104, 101, 108, 108, 111, 5, 119, 111, 114, 108, 100, 3, 99, 111, 109, 0>>

\* Buffers outside the item grammar: short and empty buffers, a reserved
\* opcode, counts with no body behind them, a record cut short, an A record
\* whose rdlen is not 4, a 33-byte query, a question whose name has four
\* 63-octet labels, and an A record whose rdlen is 100 with 4 bytes behind it.
SpecialPackets ==
    { <<>>,
      SubSeq(PacketHeader(0, 0, 0, 0), 1, 11),
      <<18, 52, 24, 0, 0, 0, 0, 0, 0, 0, 0, 0>>,
      <<18, 52, 1, 0, 255, 255, 255, 255, 255, 255, 255, 255>>,
      PacketHeader(1, 0, 0, 0),
      PacketHeader(0, 1, 0, 0) \o <<0, 0, 1, 0, 1, 0, 0, 1, 44, 0, 4, 1, 2>>,
      PacketHeader(0, 2, 0, 0)
          \o <<0, 0, 1, 0, 1, 0, 0, 1, 44, 0, 6, 1, 2, 3, 4, 9, 9>>
          \o <<0, 0, 1, 0, 1, 0, 0, 1, 44, 0, 4, 5, 6, 7, 8>>,
      PacketHeader(1, 0, 0, 0) \o HelloWorldCom \o <<0, 1, 0, 1>>,
      PacketHeader(1, 0, 0, 0) \o LongLabel(63) \o LongLabel(63) \o LongLabel(63)
          \o LongLabel(63) \o <<0, 0, 1, 0, 1>>,
      PacketHeader(0, 1, 0, 0) \o <<0, 0, 1, 0, 1, 0, 0, 1, 44, 0, 100, 1, 2, 3, 4>> }

PacketInputs == ItemPackets \cup SpecialPackets

Init ==
    /\ build \in Builds
    /\ buff \in PacketInputs
    /\ pc = "start" /\ round = 1 /\ pos = 0 /\ pkt = EmptyPacket /\ trail = <<>>
    /\ result = NoResult /\ first = EmptyPacket /\ out = <<>>
    /\ NameIdle
    /\ HeaderIdle
    /\ OthersIdle

\* Ok(packet), Err(e) or a panic ends the call.
Return(status, err) == [status |-> status, err |-> err]

\* let header = DnsHeader::try_from(buff)?; let mut pos = 12;
TryFromHeader ==
    /\ pc = "start"
    /\ \E h \in { HeaderTryFromBytes(buff) } :
       IF h.ok
       THEN /\ pkt' = [EmptyPacket EXCEPT !.header = h.val]
            /\ pos' = HEADER_LEN
            /\ pc' = "body"
            /\ UNCHANGED result
       ELSE /\ result' = Return(IF IsPanic(h) THEN "panic" ELSE "err", h.err)
            /\ pc' = "done"
            /\ UNCHANGED <<pkt, pos>>
    /\ UNCHANGED <<build, buff, round, trail, first, out, nameVars, headerVars, otherVars>>

LoopPending_SkipsLast(done, count) == done + 1 < count

\* for _ in 0..count: whether an iteration remains.
LoopPending(done, count) == done < count

Pending(section) == LoopPending(Len(pkt[section]), pkt.header[section])

\* One iteration of a section's loop: parse at pos, then pos += size and
\* push, or leave through ?.
ParseItem(section, r) ==
    /\ IF r.status = "ok"
       THEN /\ pkt' = [pkt EXCEPT ![section] = Append(@, r.val)]
            /\ pos' = pos + r.size
            /\ trail' = Append(trail, [section |-> section, start |-> pos, size |-> r.size])
            /\ UNCHANGED <<pc, result>>
       ELSE /\ result' = Return(r.status, r.err)
            /\ pc' = "done"
            /\ pkt' = EmptyPacket
            /\ UNCHANGED <<pos, trail>>
    /\ UNCHANGED <<build, buff, round, first, out, nameVars, headerVars, otherVars>>

ParseQuestion ==
    /\ pc = "body"
    /\ Pending("questions")
    /\ \E r \in { QuestionParse(buff, pos) } : ParseItem("questions", r)

ParseAnswer ==
    /\ pc = "body"
    /\ ~Pending("questions") /\ Pending("answers")
    /\ \E r \in { ResourceRecordParse(buff, pos) } : ParseItem("answers", r)

ParseAuthority ==
    /\ pc = "body"
    /\ ~Pending("questions") /\ ~Pending("answers") /\ Pending("authority")
    /\ \E r \in { ResourceRecordParse(buff, pos) } : ParseItem("authority", r)

ParseAdditional ==
    /\ pc = "body"
    /\ ~Pending("questions") /\ ~Pending("answers") /\ ~Pending("authority")
    /\ Pending("additional")
    /\ \E r \in { ResourceRecordParse(buff, pos) } : ParseItem("additional", r)

\* Ok(DnsPacket { header, questions, answers, authority, additional })
Finish ==
    /\ pc = "body"
    /\ \A i \in 1..Len(Sections) : ~Pending(Sections[i])
    /\ result' = Return("ok", NoErr)
    /\ pc' = "done"
    /\ UNCHANGED <<build, buff, round, pos, pkt, trail, first, out, nameVars, headerVars, otherVars>>

Records(p) == p.answers \o p.authority \o p.additional

\* RecordData::serialize reaches todo!() on a record it has no arm for.
SerializePanics(p) ==
    \E i \in 1..Len(Records(p)) :
        Records(p)[i].data.variant \notin {"A", "Ns", "Cname", "Mx"}

\* Vec::<u8>::from(&packet) on the packet try_from returned.
Serialize ==
    /\ pc = "done" /\ round = 1 /\ result.status = "ok"
    /\ IF SerializePanics(pkt)
       THEN result' = Return("panic", NoErr) /\ UNCHANGED <<out, pc>>
       ELSE out' = PacketSerialize(pkt) /\ pc' = "serialized" /\ UNCHANGED result
    /\ UNCHANGED <<build, buff, round, pos, pkt, trail, first, nameVars, headerVars, otherVars>>

\* The serialized bytes become the buffer of a second try_from.
Reparse ==
    /\ pc = "serialized"
    /\ buff' = out
    /\ first' = pkt
    /\ round' = 2
    /\ pc' = "start" /\ pos' = 0 /\ pkt' = EmptyPacket /\ trail' = <<>>
    /\ result' = NoResult
    /\ UNCHANGED <<build, out, nameVars, headerVars, otherVars>>

Next ==
    \/ TryFromHeader
    \/ ParseQuestion
    \/ ParseAnswer
    \/ ParseAuthority
    \/ ParseAdditional
    \/ Finish
    \/ Serialize
    \/ Reparse

Spec == Init /\ [][Next]_vars

-----------------------------------------------------------------------------
(* Properties of the packet codec, checked under Spec *)

\* C1: a message that parsed, serialized and parsed again gives a packet
\* equal to the first one, header, counts and every item of every section.
C1_RoundTrip ==
    (round = 2 /\ pc = "done") => (result.status = "ok" /\ pkt = first)

\* C2: DnsPacket::try_from returns Ok or Err on every buffer; it never panics.
C2_NeverPanics == result.status # "panic"

SectionIndex(section) == CHOOSE i \in 1..Len(Sections) : Sections[i] = section

ItemsOf(section) == { i \in 1..Len(trail) : trail[i].section = section }

\* C3: in a packet try_from returned, every section has as many items as the
\* header counts, and the items were read back to back from offset 12 in
\* the order questions, answers, authority, additional.
C3_CountsMatchSections ==
    result.status = "ok" =>
        /\ \A k \in 1..Len(Sections) :
              /\ Len(pkt[Sections[k]]) = pkt.header[Sections[k]]
              /\ Cardinality(ItemsOf(Sections[k])) = pkt.header[Sections[k]]
        /\ Len(trail) = pkt.header.questions + pkt.header.answers
                          + pkt.header.authority + pkt.header.additional
        /\ trail # <<>> => trail[1].start = HEADER_LEN
        /\ \A i \in 1..(Len(trail) - 1) :
              /\ trail[i + 1].start = trail[i].start + trail[i].size
              /\ SectionIndex(trail[i].section) <= SectionIndex(trail[i + 1].section)
        /\ pkt.header = HeaderTryFromBytes(buff).val

\* A packet with a question, an answer and an additional record was returned.
C3_Witness ==
    /\ result.status = "ok" /\ round = 1
    /\ Len(pkt.questions) = 1 /\ Len(pkt.answers) = 1 /\ Len(pkt.additional) = 1
    /\ pkt.answers[1].preamble.rdlen > 0

-----------------------------------------------------------------------------
(* name.rs: names built from text, and the read-only methods of Name *)

DOT == 46

\* str::split('.'): the parts from left to right; one empty part for "".
RECURSIVE Split(_)
Split(text) ==
    LET dots == { i \in 1..Len(text) : text[i] = DOT } IN
    IF dots = {} THEN <<text>>
    ELSE LET d == CHOOSE i \in dots : \A j \in dots : i <= j
         IN  <<SubSeq(text, 1, d - 1)>> \o Split(SubSeq(text, d + 1, Len(text)))

\* str::rsplit('.'): the same parts from right to left.
RSplit(text) == Reverse(Split(text))

\* Name::push_label.
push_label(name, label) ==
    LET len == Len(label) IN
    IF len = 0 \/ len > MAX_LABEL_SIZE
    THEN [status |-> "err", name |-> name, err |-> Err("LabelLength", len)]
    ELSE IF len + name.len > MAX_NAME_SIZE
    THEN [status |-> "err", name |-> name, err |-> Err("NameLength", len + name.len)]
    ELSE IF ~valid_label(label)
    THEN [status |-> "err", name |-> name, err |-> Err("LabelContent", 0)]
    ELSE LET sum == AddU8(name.len, len % 256) IN
         IF sum.panic THEN [status |-> "panic", name |-> name, err |-> NoErr]
         ELSE [status |-> "ok",
               name |-> [labels |-> Append(name.labels, label), len |-> sum.val],
               err |-> NoErr]

\* for label in value.rsplit('.') { name.push_label(label)?; }
RECURSIVE PushAll(_, _)
PushAll(name, parts) ==
    IF parts = <<>> THEN [status |-> "ok", name |-> name, err |-> NoErr]
    ELSE Let({ IF r.status = "ok" THEN PushAll(r.name, Tail(parts)) ELSE r
               : r \in { push_label(name, Head(parts)) } })

\* TryFrom<&str> for Name.
NameTryFrom(text) == PushAll(NewName, RSplit(text))

iter_hierarchy(name) == name.labels

None == [some |-> FALSE, val |-> <<>>]

Some(v) == [some |-> TRUE, val |-> v]

\* Name::tld.
tld(name) == IF name.labels = <<>> THEN None ELSE Some(name.labels[1])

\* Name::label_count.
label_count(name) == Len(name.labels)

\* zip(xs, ys).fold(acc, |acc, (x, y)| acc && x == y)
RECURSIVE ZipFold(_, _, _)
ZipFold(acc, xs, ys) ==
    IF xs = <<>> \/ ys = <<>> THEN acc
    ELSE ZipFold(acc /\ Head(xs) = Head(ys), Tail(xs), Tail(ys))

\* is_subdomain without the comparison of the label counts.
is_subdomain_NoLengthCheck(name, sub) ==
    ZipFold(TRUE, iter_hierarchy(name), iter_hierarchy(sub))

\* Name::is_subdomain.
is_subdomain(name, sub) ==
    IF Len(name.labels) > Len(sub.labels) THEN FALSE
    ELSE ZipFold(TRUE, iter_hierarchy(name), iter_hierarchy(sub))

\* Display for Name: write!(f, "{}.", l) for every label of iter_human.
RECURSIVE WriteLabels(_)
WriteLabels(ls) ==
    IF ls = <<>> THEN <<>> ELSE Head(ls) \o <<DOT>> \o WriteLabels(Tail(ls))

NameToString(name) == WriteLabels(iter_human(name))

-----------------------------------------------------------------------------
(* SpecText: a Name built by push_label, try_from(&str) or Name::parse, then
   read by serialize, Display, tld, label_count, the iterators, is_subdomain *)

MaxLabels == 5

COM == <<99, 111, 109>>

EXAMPLE == <<101, 120, 97, 109, 112, 108, 101>>

A1 == <<97, 45, 49>>

CAPITAL == <<69, 120, 97, 109, 112, 108, 101>>

DIGIT_FIRST == <<49, 97>>

UNDERSCORE == <<97, 95, 98>>

Letters(n) == [i \in 1..n |-> 97]

\* "com", "example", "a-1" and a label of 63 letters.
GoodLabels == { COM, EXAMPLE, A1, Letters(63) }

\* "", "1a", "a_b" and a label of 64 letters.
BadLabels == { <<>>, DIGIT_FIRST, UNDERSCORE, Letters(64) }

TextLabels == GoodLabels \cup BadLabels

RECURSIVE Join(_)
Join(parts) ==
    IF Len(parts) = 1 THEN Head(parts) ELSE Head(parts) \o <<DOT>> \o Join(Tail(parts))

\* "com", "example.com", "a-1.example.com", "example", "Example.com";
\* "", ".", "com.", ".com", "example..com", "1a.com", "a_b.com";
\* four and five labels of 63 letters.
GoodTexts ==
    { COM, Join(<<EXAMPLE, COM>>), Join(<<A1, EXAMPLE, COM>>), EXAMPLE,
      Join(<<CAPITAL, COM>>) }

Texts ==
    GoodTexts \cup
    { <<>>, <<DOT>>, COM \o <<DOT>>, <<DOT>> \o COM, Join(<<EXAMPLE, <<>>, COM>>),
      Join(<<DIGIT_FIRST, COM>>), Join(<<UNDERSCORE, COM>>),
      Join([i \in 1..4 |-> Letters(63)]), Join([i \in 1..5 |-> Letters(63)]) }

\* The names is_subdomain is asked about: the root and accepted texts.
OtherNames == { NewName } \cup { NameTryFrom(t).name : t \in GoodTexts \ { EXAMPLE } }

InitText ==
    /\ build \in Builds
    /\ buff = <<>>
    /\ tname = NewName
    /\ tres = [op |-> "new"]
    /\ NameIdle /\ HeaderIdle /\ PacketIdle /\ CodeIdle /\ ServeIdle

Building == tres.op \in {"new", "push_label", "try_from"}

Built == tres.op \in {"new", "push_label", "try_from", "parse"}

TextFrame == UNCHANGED <<build, buff, nameVars, headerVars, packetVars, codeVars, serveVars>>

\* name.push_label(label)
PushLabel ==
    /\ tres.op \in {"new", "push_label"}
    /\ label_count(tname) < MaxLabels
    /\ \E label \in TextLabels : \E r \in { push_label(tname, label) } :
          /\ tname' = r.name
          /\ tres' = [op |-> "push_label", label |-> label, before |-> tname,
                      status |-> r.status, err |-> r.err]
    /\ TextFrame

\* Name::try_from(text)
TryFromText ==
    /\ tres.op = "new"
    /\ \E text \in Texts : \E r \in { NameTryFrom(text) } :
          /\ tname' = IF r.status = "ok" THEN r.name ELSE NewName
          /\ tres' = [op |-> "try_from", text |-> text, status |-> r.status, err |-> r.err]
    /\ TextFrame

\* Name::parse(b, p)
FromWire ==
    /\ tres.op = "new"
    /\ \E i \in NameInputs : \E r \in { NameParse(i.b, i.p) } :
          /\ tname' = IF r.status = "ok" THEN r.name ELSE NewName
          /\ tres' = [op |-> "parse", b |-> i.b, p |-> i.p, status |-> r.status,
                      size |-> r.size, jumps |-> r.jumps, err |-> r.err]
    /\ TextFrame

Usable == Built /\ (tres.op \in {"try_from", "parse"} => tres.status = "ok")

\* name.serialize(&mut packet) on an empty packet
SerializeName ==
    /\ Usable
    /\ tres' = [op |-> "serialize", of |-> tres, out |-> NameSerialize(tname)]
    /\ UNCHANGED tname
    /\ TextFrame

\* name.to_string(), tld(), label_count(), iter_hierarchy(), iter_human()
Inspect ==
    /\ Usable
    /\ tres' = [op |-> "inspect", of |-> tres, to_string |-> NameToString(tname),
                tld |-> tld(tname), label_count |-> label_count(tname),
                iter_hierarchy |-> iter_hierarchy(tname), iter_human |-> iter_human(tname)]
    /\ UNCHANGED tname
    /\ TextFrame

\* is_subdomain among tname (a) and two other names b and c
IsSubdomain ==
    /\ Usable /\ Building
    /\ \E b \in OtherNames, c \in OtherNames :
          tres' = [op |-> "is_subdomain", b |-> b, c |-> c,
                   ab |-> is_subdomain(tname, b), ba |-> is_subdomain(b, tname),
                   bc |-> is_subdomain(b, c), ac |-> is_subdomain(tname, c),
                   aa |-> is_subdomain(tname, tname),
                   root |-> is_subdomain(NewName, tname)]
    /\ UNCHANGED tname
    /\ TextFrame

NextText ==
    \/ PushLabel
    \/ TryFromText
    \/ FromWire
    \/ SerializeName
    \/ Inspect
    \/ IsSubdomain

SpecText == InitText /\ [][NextText]_vars

-----------------------------------------------------------------------------
(* Properties of names built from text, checked under SpecText *)

RECURSIVE SumLen(_)
SumLen(ls) == IF ls = <<>> THEN 0 ELSE Len(Head(ls)) + 1 + SumLen(Tail(ls))

\* Sum of the label lengths, one length octet per label, one terminator.
SerializedLength(name) == SumLen(name.labels) + 1

HasEmptyPart(text) ==
    \/ text = <<>>
    \/ text[1] = DOT
    \/ text[Len(text)] = DOT
    \/ \E i \in 1..(Len(text) - 1) : text[i] = DOT /\ text[i + 1] = DOT

\* C11: push_label and try_from(&str) accept a label only when its length is
\* in 1..63 and the name then serializes to at most 255 bytes; a label of
\* another length gives LabelLength, and a text with an empty part gives
\* LabelLength(0).
C11_TextNameBounded ==
    /\ (tres.op = "push_label" /\ tres.status = "ok") =>
          /\ Len(tres.label) \in 1..MAX_LABEL_SIZE
          /\ SerializedLength(tname) <= MAX_NAME_SIZE
    /\ (tres.op = "push_label" /\ Len(tres.label) \notin 1..MAX_LABEL_SIZE) =>
          /\ tres.status = "err"
          /\ tres.err = Err("LabelLength", Len(tres.label))
    /\ (tres.op = "try_from" /\ tres.status = "ok") =>
          SerializedLength(tname) <= MAX_NAME_SIZE
    /\ (tres.op = "try_from" /\ HasEmptyPart(tres.text)) =>
          /\ tres.status = "err"
          /\ tres.err = Err("LabelLength", 0)

AsciiLetters == (65..90) \cup (97..122)

AsciiDigits == 48..57

HYPHEN == 45

WellFormed(label) ==
    /\ Len(label) >= 1
    /\ label[1] \in AsciiLetters
    /\ \A i \in 2..Len(label) : label[i] \in AsciiLetters \cup AsciiDigits \cup {HYPHEN}

\* The first label of the wire name at p is complete in b: its size and bytes.
FirstWireLabel(b, p) ==
    IF p < Len(b) /\ b[p + 1] \in 1..MAX_LABEL_SIZE /\ p + b[p + 1] < Len(b)
    THEN SubSeq(b, p + 2, p + 1 + b[p + 1])
    ELSE <<>>

\* C12: every label a Name holds, pushed from text or decoded from the wire,
\* starts with an ASCII letter and goes on with letters, digits and '-';
\* a label of accepted length that breaks the rule is rejected with
\* LabelContent, and a rejected push_label leaves labels and len unchanged.
C12_LabelsWellFormed ==
    /\ \A i \in 1..Len(tname.labels) : WellFormed(tname.labels[i])
    /\ tres.op = "push_label" =>
          /\ tres.status # "ok" => tname = tres.before
          /\ tres.status = "ok" =>
                /\ WellFormed(tres.label)
                /\ tname.labels = Append(tres.before.labels, tres.label)
          /\ (/\ ~WellFormed(tres.label)
              /\ Len(tres.label) \in 1..MAX_LABEL_SIZE
              /\ Len(tres.label) + tres.before.len <= MAX_NAME_SIZE) =>
                tres.status = "err" /\ tres.err = Err("LabelContent", 0)
          /\ tres.err.kind = "LabelContent" => ~WellFormed(tres.label)
    /\ (tres.op = "try_from" /\ tres.status = "ok") =>
          \A i \in 1..Len(Split(tres.text)) : WellFormed(Split(tres.text)[i])
    /\ (tres.op = "parse" /\ FirstWireLabel(tres.b, tres.p) # <<>>
            /\ ~WellFormed(FirstWireLabel(tres.b, tres.p))) =>
          tres.status = "err" /\ tres.err = Err("LabelContent", 0)

\* push_label refused a label with a bad character on a name that has labels.
C12_Witness ==
    /\ tres.op = "push_label" /\ tres.err.kind = "LabelContent"
    /\ Len(tres.label) > 1
    /\ label_count(tname) >= 2

\* The uncompressed wire form of a text name: each part behind its length.
RECURSIVE WireOfParts(_)
WireOfParts(parts) ==
    IF parts = <<>> THEN <<0>>
    ELSE <<Len(Head(parts))>> \o Head(parts) \o WireOfParts(Tail(parts))

WireOfText(text) == WireOfParts(Split(text))

\* C13: labels are held TLD first by try_from(&str) and by Name::parse of the
\* same name (a name of at most 255 bytes on the wire); iter_hierarchy gives them TLD first and iter_human leaf first,
\* tld() is the first hierarchical label (None for the empty name),
\* label_count() their number, and to_string() writes them leaf first, each
\* followed by '.'.
C13_HierarchicalOrder ==
    tres.op = "inspect" =>
        /\ tres.iter_hierarchy = tname.labels
        /\ tres.iter_human = Reverse(tres.iter_hierarchy)
        /\ tres.label_count = Len(tres.iter_hierarchy)
        /\ tres.tld = IF tname.labels = <<>> THEN None ELSE Some(tres.iter_hierarchy[1])
        /\ tres.of.op = "try_from" =>
              LET parts == Split(tres.of.text) IN
              /\ tres.iter_human = parts
              /\ tres.tld = Some(parts[Len(parts)])
              /\ tres.label_count = Len(parts)
              /\ tres.to_string = tres.of.text \o <<DOT>>
              /\ Len(WireOfText(tres.of.text)) <= MAX_NAME_SIZE =>
                    NameParse(WireOfText(tres.of.text), 0).status = "ok"
              /\ NameParse(WireOfText(tres.of.text), 0).status = "ok" =>
                    NameParse(WireOfText(tres.of.text), 0).name.labels = tname.labels

\* "example.com" was built from text and printed as "example.com.".
C13_Witness ==
    /\ tres.op = "inspect"
    /\ tres.of.op = "try_from"
    /\ tres.of.text = Join(<<EXAMPLE, COM>>)
    /\ tres.to_string = EXAMPLE \o <<DOT>> \o COM \o <<DOT>>
    /\ tres.tld = Some(COM)

IsPrefix(xs, ys) == Len(xs) <= Len(ys) /\ \A i \in 1..Len(xs) : xs[i] = ys[i]

\* C14: a.is_subdomain(b) is true exactly when a's hierarchical labels are a
\* prefix of b's; so the root is a subdomain of every name, every name of
\* itself, the relation is transitive, and two names that are subdomains of
\* each other have the same labels.
C14_SubdomainIsPrefix ==
    tres.op = "is_subdomain" =>
        /\ tres.ab <=> IsPrefix(tname.labels, tres.b.labels)
        /\ tres.ba <=> IsPrefix(tres.b.labels, tname.labels)
        /\ tres.bc <=> IsPrefix(tres.b.labels, tres.c.labels)
        /\ tres.ac <=> IsPrefix(tname.labels, tres.c.labels)
        /\ tres.root
        /\ tres.aa
        /\ (tres.ab /\ tres.bc) => tres.ac
        /\ (tres.ab /\ tres.ba) => tname.labels = tres.b.labels

\* "com" under "example.com" under "a-1.example.com", and not the other way.
C14_Witness ==
    /\ tres.op = "is_subdomain"
    /\ tname.labels = <<COM>>
    /\ tres.b.labels = <<COM, EXAMPLE>>
    /\ tres.c.labels = <<COM, EXAMPLE, A1>>
    /\ tres.ab /\ tres.bc /\ tres.ac /\ ~tres.ba

\* Length octets in 1..63, each followed by that many bytes, then one zero.
RECURSIVE PlainName(_)
PlainName(bytes) ==
    \/ bytes = <<0>>
    \/ /\ bytes # <<>>
       /\ bytes[1] \in 1..MAX_LABEL_SIZE
       /\ Len(bytes) > bytes[1] + 1
       /\ PlainName(SubSeq(bytes, bytes[1] + 2, Len(bytes)))

\* C15: Name::serialize writes the labels leaf first, each behind one length
\* octet in 1..63, then one zero and never a pointer; for a name returned by
\* Name::parse, parsing the written bytes at offset 0 returns the same labels
\* and consumes exactly the bytes written, and when the input was not
\* compressed the written bytes are the input bytes of the name.
C15_SerializeRoundTrip ==
    tres.op = "serialize" =>
        /\ PlainName(tres.out)
        /\ Len(tres.out) = SerializedLength(tname)
        /\ tres.of.op = "parse" =>
              /\ NameParse(tres.out, 0).status = "ok"
              /\ NameParse(tres.out, 0).name.labels = tname.labels
              /\ NameParse(tres.out, 0).size = Len(tres.out)
              /\ tres.of.jumps = 0 =>
                    tres.out = SubSeq(tres.of.b, tres.of.p + 1, tres.of.p + tres.of.size)

\* A compressed name of two different labels was parsed and serialized.
C15_Witness ==
    /\ tres.op = "serialize"
    /\ tres.of.op = "parse"
    /\ tres.of.jumps > 0
    /\ label_count(tname) >= 2
    /\ tname.labels[1] # tname.labels[2]
    /\ Len(tres.out) > tres.of.size

-----------------------------------------------------------------------------
(* SpecCodes: From<u16> for Type, QType and Class, and the way back *)

U16_MAX == 65535

InitCodes ==
    /\ build \in Builds
    /\ buff = <<>>
    /\ word \in 0..U16_MAX
    /\ conv = [op |-> "new"]
    /\ NameIdle /\ HeaderIdle /\ PacketIdle /\ TextIdle /\ ServeIdle

CodesFrame ==
    UNCHANGED <<build, word, nameVars, headerVars, packetVars, textVars, serveVars>>

\* u16::from(Type::from(word)), and the same for QType and Class
ConvertCodes ==
    /\ conv.op = "new"
    /\ conv' = [op |-> "convert",
                type |-> TypeFrom(word),
                qtype |-> QTypeFrom(word),
                class |-> ClassFrom(word),
                type_back |-> CodeInto(TypeTable, TypeFrom(word)),
                qtype_back |-> CodeInto(QTypeTable, QTypeFrom(word)),
                class_back |-> CodeInto(ClassTable, ClassFrom(word))]
    /\ UNCHANGED buff
    /\ CodesFrame

\* The question "a" with word as its qtype (class IN) or as its class (qtype A).
CodeQuestion(field) ==
    <<1, 97, 0>> \o (IF field = "qtype" THEN push_u16(push_u16(<<>>, word), 1)
                     ELSE push_u16(push_u16(<<>>, 1), word))

\* Question::parse(buff, 0), then Question::serialize
ParseCodeQuestion ==
    /\ conv.op = "new"
    /\ \E field \in {"qtype", "class"} : \E r \in { QuestionParse(CodeQuestion(field), 0) } :
          /\ buff' = CodeQuestion(field)
          /\ conv' = [op |-> "question", field |-> field, status |-> r.status,
                      question |-> r.val,
                      out |-> IF r.status = "ok" THEN QuestionSerialize(<<>>, r.val)
                              ELSE <<>>]
    /\ CodesFrame

NextCodes == ConvertCodes \/ ParseCodeQuestion

SpecCodes == InitCodes /\ [][NextCodes]_vars

-----------------------------------------------------------------------------
(* Properties of the code conversions, checked under SpecCodes *)

KnownTypes == {1, 2, 5, 15}

KnownClasses == {1, 2, 3, 4, 255}

\* C16: for every 16-bit value n, Type::from(n), QType::from(n) and
\* Class::from(n) give a variant (Unknown(n) outside the known values, All and
\* Any for 255) whose conversion back to u16 is n; Question::parse succeeds
\* whatever the qtype and class values are.
C16_CodesLossless ==
    /\ conv.op = "convert" =>
          /\ conv.type_back = word
          /\ conv.qtype_back = word
          /\ conv.class_back = word
          /\ word \notin KnownTypes <=> conv.type = [variant |-> "Unknown", n |-> word]
          /\ word \notin KnownTypes \cup {255}
                <=> conv.qtype = [variant |-> "Unknown", n |-> word]
          /\ word \notin KnownClasses <=> conv.class = [variant |-> "Unknown", n |-> word]
          /\ word = 255 => conv.qtype.variant = "All" /\ conv.class.variant = "Any"
    /\ conv.op = "question" =>
          /\ conv.status = "ok"
          /\ conv.out = buff

\* A question with an unassigned qtype was parsed and written back.
C16_Witness ==
    /\ conv.op = "question" /\ conv.field = "qtype" /\ conv.status = "ok"
    /\ word = U16_MAX
    /\ conv.question.qtype = [variant |-> "Unknown", n |-> U16_MAX]

-----------------------------------------------------------------------------
(* Records of other types, checked under Spec *)

\* try_from ended without a packet while reading a record at pos.
FailedAtRecord ==
    /\ pc = "done"
    /\ result.status \in {"err", "panic"}
    /\ HeaderTryFromBytes(buff).ok
    /\ Cardinality(ItemsOf("questions")) = HeaderTryFromBytes(buff).val.questions

\* At p stands a record whose type has no RDATA variant of its own, with its
\* preamble and its rdlen bytes of RDATA inside the buffer.
UnknownRecordAt(b, p) ==
    LET pre == PreambleParse(b, p) IN
    /\ pre.status = "ok"
    /\ pre.val.rrtype.variant = "Unknown"
    /\ p + pre.size + pre.val.rdlen <= Len(b)

-----------------------------------------------------------------------------
(* DnsPacket::try_from as one call, for the callers of the parser *)

\* One section loop: count items parsed from p on, or the first failure.
RECURSIVE ParseItems(_, _, _, _, _)
ParseItems(b, p, count, isQuestion, acc) ==
    IF ~LoopPending(Len(acc), count)
    THEN [status |-> "ok", items |-> acc, pos |-> p, err |-> NoErr]
    ELSE Let({ IF r.status = "ok"
               THEN ParseItems(b, p + r.size, count, isQuestion, Append(acc, r.val))
               ELSE [status |-> r.status, items |-> <<>>, pos |-> p, err |-> r.err]
               : r \in { IF isQuestion THEN QuestionParse(b, p)
                         ELSE ResourceRecordParse(b, p) } })

SectionsFrom(b, h) ==
    Let({ IF q.status # "ok" THEN q ELSE
          Let({ IF an.status # "ok" THEN an ELSE
                Let({ IF ns.status # "ok" THEN ns ELSE
                      Let({ IF ar.status # "ok" THEN ar ELSE
                            [status |-> "ok", err |-> NoErr, pos |-> ar.pos,
                             items |-> [header |-> h, questions |-> q.items,
                                        answers |-> an.items, authority |-> ns.items,
                                        additional |-> ar.items]]
                            : ar \in { ParseItems(b, ns.pos, h.additional, FALSE, <<>>) } })
                      : ns \in { ParseItems(b, an.pos, h.authority, FALSE, <<>>) } })
                : an \in { ParseItems(b, q.pos, h.answers, FALSE, <<>>) } })
          : q \in { ParseItems(b, HEADER_LEN, h.questions, TRUE, <<>>) } })

\* TryFrom<&[u8]> for DnsPacket: "ok" with the packet, "err" or "panic".
PacketTryFrom(b) ==
    Let({ IF ~h.ok
          THEN [status |-> IF IsPanic(h) THEN "panic" ELSE "err",
                packet |-> EmptyPacket, err |-> h.err]
          ELSE Let({ [status |-> r.status, err |-> r.err,
                      packet |-> IF r.status = "ok" THEN r.items ELSE EmptyPacket]
                     : r \in { SectionsFrom(b, h.val) } })
          : h \in { HeaderTryFromBytes(b) } })

\* The step-by-step parser of Spec and the one-call form agree.
StepsAgreeWithCall ==
    pc = "done" =>
        /\ result.status = PacketTryFrom(buff).status
        /\ result.err = PacketTryFrom(buff).err
        /\ pkt = PacketTryFrom(buff).packet

-----------------------------------------------------------------------------
(* SpecServe: a Server from Server::new() through threads, bind and serve,
   its workers running serve_sth on the shared socket, and the clients that
   send datagrams to it *)

MaxThreads == 2
MaxDatagrams == 2

BUFF_SIZE == 512

\* A query for "a", a buffer shorter than a header, and a message with one
\* TXT record.
Query == PacketHeader(1, 0, 0, 0) \o <<1, 97, 0, 0, 1, 0, 1>>

Short == <<18, 52, 1>>

TxtAnswer == PacketHeader(0, 1, 0, 0) \o <<0, 0, 16, 0, 1, 0, 0, 0, 0, 0, 0>>

\* The 33-byte query for hello.world.com.
HelloQuery == PacketHeader(1, 0, 0, 0) \o HelloWorldCom \o <<0, 1, 0, 1>>

\* A question for "a" and two A records whose owners are pointers to the
\* question name.
CompressedAnswer ==
    PacketHeader(1, 2, 0, 0) \o <<1, 97, 0, 0, 1, 0, 1>>
        \o <<192, 12, 0, 1, 0, 1, 0, 0, 1, 44, 0, 4, 1, 2, 3, 4>>
        \o <<192, 12, 0, 1, 0, 1, 0, 0, 1, 44, 0, 4, 5, 6, 7, 8>>

\* A question with a name of three 63-octet labels and a CNAME record whose
\* owner and RDATA are pointers to that name: 223 bytes.
BigRequest ==
    PacketHeader(1, 1, 0, 0)
        \o LongLabel(63) \o LongLabel(63) \o LongLabel(63) \o <<0, 0, 1, 0, 1>>
        \o <<192, 12, 0, 5, 0, 1, 0, 0, 0, 0, 0, 2, 192, 12>>

Requests == { Query, Short, TxtAnswer, HelloQuery, CompressedAnswer, BigRequest }

\* What the clients send: the sender's address and the bytes.
Deliveries ==
    { [src |-> "client1", bytes |-> Query], [src |-> "client2", bytes |-> Query],
      [src |-> "client1", bytes |-> Short], [src |-> "client2", bytes |-> TxtAnswer] }

\* let mut buff = [0; 512]; and no datagram in hand
Waiting ==
    [pc |-> "recv", dgram |-> 0, src |-> "", packet |-> EmptyPacket, reply |-> None]

\* Server::new(): Server::<Builder>::default().
InitServe ==
    /\ build \in Builds
    /\ buff = <<>>
    /\ main = "builder"
    /\ typestate = "Builder"
    /\ threads = 1
    /\ socket = None
    /\ worker = <<>>
    /\ arrivals = <<>>
    /\ calls = EmptyBag
    /\ sent = EmptyBag
    /\ NameIdle /\ HeaderIdle /\ PacketIdle /\ TextIdle /\ CodeIdle

ServeFrame ==
    UNCHANGED <<build, buff, nameVars, headerVars, packetVars, textVars, codeVars>>

\* The steps of a worker leave the Server and its owner alone.
WorkerFrame == ServeFrame /\ UNCHANGED <<main, typestate, threads>>

\* Server<Builder>::threads(n).
Threads ==
    /\ main = "builder" /\ typestate = "Builder"
    /\ \E n \in 0..MaxThreads : threads' = n
    /\ UNCHANGED <<main, typestate, socket, worker, arrivals, calls, sent>>
    /\ ServeFrame

\* socket: Some(UdpSocket::bind(addr)?) with nothing delivered yet.
BoundSocket_None == None

BoundSocket == Some(<<>>)

\* Server<Builder>::bind(addr): UdpSocket::bind returns Ok or Err; the
\* builder is consumed.
Bind ==
    /\ main = "builder" /\ typestate = "Builder"
    /\ \/ /\ typestate' = "Runner"
          /\ socket' = BoundSocket
          /\ main' = "runner"
       \/ /\ typestate' = "Dropped"
          /\ socket' = None
          /\ main' = "bind_failed"
    /\ UNCHANGED <<threads, worker, arrivals, calls, sent>>
    /\ ServeFrame

\* for _ in 0..self.threads { s.spawn(..) } with one worker too many.
Pool_OneMore(n) == 1..(n + 1)

\* for _ in 0..self.threads { s.spawn(..) }
Pool(n) == 1..n

\* Server<Runner>::serve(srv): every worker of the scope is spawned.
Serve ==
    /\ main = "runner" /\ typestate = "Runner"
    /\ worker' = [w \in Pool(threads) |-> Waiting]
    /\ main' = "serving"
    /\ UNCHANGED <<typestate, threads, socket, arrivals, calls, sent>>
    /\ ServeFrame

\* The thread of the worker is over: serve_sth returned Err into expect, or
\* it panicked.
Ended(w) == worker[w].pc \in {"failed", "panicked", "no_socket"}

\* thread::scope returning at the first worker that is over.
Joined_FirstEnded == \E w \in DOMAIN worker : Ended(w)

\* thread::scope joins every thread spawned in it.
Joined == \A w \in DOMAIN worker : Ended(w)

\* thread::scope ends: it returns when no thread was spawned and panics when
\* a joined thread panicked.
ScopeJoin ==
    /\ main = "serving"
    /\ Joined
    /\ main' = IF worker = <<>> THEN "returned" ELSE "panicked"
    /\ UNCHANGED <<typestate, threads, socket, worker, arrivals, calls, sent>>
    /\ ServeFrame

\* A client sends a datagram to the bound address.
Deliver ==
    /\ socket.some
    /\ Len(arrivals) < MaxDatagrams
    /\ \E d \in Deliveries :
          /\ arrivals' = Append(arrivals, [src |-> d.src, bytes |-> d.bytes,
                                           status |-> "unread"])
          /\ socket' = Some(Append(socket.val, [id |-> Len(arrivals) + 1,
                                                src |-> d.src, bytes |-> d.bytes]))
    /\ UNCHANGED <<main, typestate, threads, worker, calls, sent>>
    /\ ServeFrame

\* &buff[..n] after recv_from(&mut buff): the datagram, cut to the size of
\* buff.
Received(bytes) ==
    IF Len(bytes) <= BUFF_SIZE THEN bytes ELSE SubSeq(bytes, 1, BUFF_SIZE)

\* match DnsPacket::try_from(..) taking an Err for a packet.
AfterParse_ServesErrors(status) ==
    IF status = "panic" THEN "panicked" ELSE "run"

\* match DnsPacket::try_from(..) { Ok(packet) => packet, Err(_) => continue }
AfterParse(status) ==
    IF status = "ok" THEN "run" ELSE IF status = "err" THEN "recv" ELSE "panicked"

\* self.socket.as_ref().expect(..) on a socket that is None.
NoSocket(w) == [worker EXCEPT ![w] = [Waiting EXCEPT !.pc = "no_socket"]]

\* recv_from(&mut buff) returns Ok((n, src)) and DnsPacket::try_from reads
\* &buff[..n].
Recv(w) ==
    /\ worker[w].pc = "recv"
    /\ IF ~socket.some
       THEN worker' = NoSocket(w) /\ UNCHANGED <<socket, arrivals>>
       ELSE /\ socket.val # <<>>
            /\ socket' = Some(Tail(socket.val))
            /\ \E r \in { PacketTryFrom(Received(Head(socket.val).bytes)) } :
                  /\ arrivals' = [arrivals EXCEPT ![Head(socket.val).id].status = r.status]
                  /\ worker' = [worker EXCEPT ![w] =
                         IF AfterParse(r.status) = "recv" THEN Waiting
                         ELSE [Waiting EXCEPT !.pc = AfterParse(r.status),
                                              !.dgram = Head(socket.val).id,
                                              !.src = Head(socket.val).src,
                                              !.packet = r.packet]]
    /\ UNCHANGED <<calls, sent>>
    /\ WorkerFrame

\* recv_from returns Err: serve_sth returns it and the thread ends in expect.
RecvError(w) ==
    /\ worker[w].pc = "recv"
    /\ socket.some
    /\ worker' = [worker EXCEPT ![w] = [Waiting EXCEPT !.pc = "failed"]]
    /\ UNCHANGED <<socket, arrivals, calls, sent>>
    /\ WorkerFrame

\* chat refused(id): a response header with rcode Refused and no items.
Refused(id) ==
    [EmptyPacket EXCEPT !.header.id = id,
        !.header.flags = <<"Response", "Query", "Authoritative", "NotTruncated",
                           "NotDesired", "NotAvailable", "Zero", "NotAuthentic",
                           "Disabled", "Refused">>]

\* A reply with one answer whose data is RecordData::Unknown.
Opaque(question) ==
    [question EXCEPT !.header.answers = 1,
        !.answers = << [preamble |-> [name |-> NewName, rrtype |-> TypeFrom(16),
                                      class |-> ClassFrom(1), ttl |-> 0, rdlen |-> 0],
                        data |-> RData("Unknown", <<>>, NoName, 0)] >>]

\* What a service may return for a question: nothing, the question itself
\* (Echo), a refusal, or a packet it builds from the public record types.
Replies(question) ==
    { None, Some(question), Some(Refused(question.header.id)), Some(Opaque(question)) }

\* if let Some(res) = srv.run(src, packet) { .. }
AfterRun(reply) == IF reply.some THEN "send" ELSE "recv"

Run(w) ==
    /\ worker[w].pc = "run"
    /\ \E reply \in Replies(worker[w].packet) :
          /\ calls' = calls (+) SetToBag({[worker |-> w, src |-> worker[w].src,
                                            dgram |-> worker[w].dgram,
                                            reply |-> reply]})
          /\ worker' = [worker EXCEPT ![w] =
                IF AfterRun(reply) = "recv" THEN Waiting
                ELSE [@ EXCEPT !.pc = AfterRun(reply), !.reply = reply]]
    /\ UNCHANGED <<socket, arrivals, sent>>
    /\ WorkerFrame

\* let serialized = Vec::<u8>::from(&res); send_to(&serialized[..], src)?
\* which returns Ok or Err.
Send(w) ==
    /\ worker[w].pc = "send"
    /\ IF SerializePanics(worker[w].reply.val)
       THEN /\ worker' = [worker EXCEPT ![w] = [Waiting EXCEPT !.pc = "panicked"]]
            /\ UNCHANGED sent
       ELSE IF ~socket.some
       THEN worker' = NoSocket(w) /\ UNCHANGED sent
       ELSE \E ok \in BOOLEAN :
            /\ sent' = sent (+) SetToBag({[worker |-> w, dst |-> worker[w].src,
                                          dgram |-> worker[w].dgram, ok |-> ok,
                                          bytes |-> PacketSerialize(worker[w].reply.val)]})
            /\ worker' = [worker EXCEPT ![w] =
                  IF ok THEN Waiting ELSE [Waiting EXCEPT !.pc = "failed"]]
    /\ UNCHANGED <<socket, arrivals, calls>>
    /\ WorkerFrame

NextServe ==
    \/ Threads
    \/ Bind
    \/ Serve
    \/ ScopeJoin
    \/ Deliver
    \/ \E w \in DOMAIN worker : Recv(w)
    \/ \E w \in DOMAIN worker : RecvError(w)
    \/ \E w \in DOMAIN worker : Run(w)
    \/ \E w \in DOMAIN worker : Send(w)

SpecServe == InitServe /\ [][NextServe]_vars

-----------------------------------------------------------------------------
(* Properties of the serve loop *)

\* What DnsPacket::try_from returned for the i-th datagram sent to the server.
Status(i) == arrivals[i].status

\* The calls of srv.run and of send_to made for the i-th datagram.
CallsFor(i) == { c \in BagToSet(calls) : c.dgram = i }

SendsFor(i) == { s \in BagToSet(sent) : s.dgram = i }

InSocket(i) == arrivals[i].status = "unread"

\* A worker receives a datagram whose parse returns Err.
Drops ==
    \E i \in DOMAIN arrivals :
        arrivals[i].status = "unread" /\ arrivals'[i].status = "err"

Unserved ==
    \A i \in DOMAIN arrivals :
        Status(i) = "err" => CallsFor(i) = {} /\ SendsFor(i) = {}

\* C18: a datagram on which DnsPacket::try_from returns an error is dropped:
\* the service is not called for it, nothing is sent for it, and the worker
\* that received it is at recv_from again, as are the workers that were.
C18_ErrorsDropped ==
    /\ []Unserved
    /\ [][ Drops => worker' = worker /\ calls' = calls /\ sent' = sent ]_vars

\* The only worker dropped the first datagram and answered the second.
C18_Witness ==
    /\ threads = 1
    /\ Len(arrivals) = 2
    /\ Status(1) = "err"
    /\ Status(2) = "ok"
    /\ CallsFor(1) = {} /\ SendsFor(1) = {}
    /\ SendsFor(2) # {}
    /\ worker[1].pc = "recv"

\* The i-th datagram has left the socket and its worker is past srv.run.
Handled(i) ==
    /\ ~InSocket(i)
    /\ \A w \in DOMAIN worker :
          worker[w].dgram = i => worker[w].pc # "run"

\* The call k of the service is followed by the send_to it asks for: done
\* by the calling worker, or that worker's next step.
Answered(i, c) ==
    IF c.reply.some
    THEN \/ /\ worker[c.worker].dgram # i
            /\ \E s \in SendsFor(i) :
                  /\ s.worker = c.worker
                  /\ s.dst = arrivals[i].src
                  /\ s.bytes = PacketSerialize(c.reply.val)
         \/ /\ SendsFor(i) = {}
            /\ worker[c.worker].dgram = i
            /\ worker[c.worker].pc = "send"
    ELSE /\ SendsFor(i) = {}
         /\ worker[c.worker].dgram # i

\* C19: for a datagram that parses, the service is called exactly once, with
\* the sender's address; a reply Some(res) is passed
\* to send_to exactly once, serialized and addressed to that sender, before
\* the worker receives again; a reply None sends nothing.
C19_OneCallOneSend ==
    \A i \in DOMAIN arrivals :
        /\ Cardinality(CallsFor(i)) <= 1
        /\ Cardinality(SendsFor(i)) <= 1
        /\ \A s \in SendsFor(i) : CopiesIn(s, sent) = 1
        /\ Status(i) = "ok" /\ Handled(i) => CallsFor(i) # {}
        /\ \A c \in CallsFor(i) :
              /\ CopiesIn(c, calls) = 1
              /\ c.src = arrivals[i].src
              /\ Answered(i, c)

\* The worker panicked inside DnsPacket::try_from on the datagram it holds.
CrashedOnDatagram(w) ==
    /\ worker[w].pc = "panicked"
    /\ worker[w].dgram \in DOMAIN arrivals
    /\ Status(worker[w].dgram) = "panic"

\* C20: no content of a received datagram panics or ends a worker thread;
\* after handling it the worker is waiting in recv_from again.
C20_NoCrashOnDatagram == \A w \in DOMAIN worker : ~CrashedOnDatagram(w)

-----------------------------------------------------------------------------
(* Properties of the Server and its thread pool *)

Spawned == main \in {"serving", "returned", "panicked"}

PoolSize ==
    /\ ~Spawned => worker = <<>>
    /\ Spawned => DOMAIN worker = 1..threads
    /\ main \in {"returned", "panicked"} => \A w \in DOMAIN worker : Ended(w)
    /\ main = "returned" =>
          /\ threads = 0
          /\ \A i \in DOMAIN arrivals : arrivals[i].status = "unread"

PoolFixed ==
    /\ main = "builder" /\ main' = "runner" => threads' = threads
    /\ Spawned =>
          /\ threads' = threads
          /\ DOMAIN worker' = DOMAIN worker
          /\ \A w \in DOMAIN worker : Ended(w) => worker'[w] = worker[w]

\* C21: a new Server has threads = 1 and bind keeps the value threads(n)
\* set; serve spawns exactly that many workers on the one socket, the pool
\* never grows and an ended worker is never replaced, serve is not over
\* while a worker runs, and with 0 threads it returns having received
\* nothing.
C21_ThreadPool ==
    /\ threads = 1
    /\ []PoolSize
    /\ [][PoolFixed]_vars

\* Two workers serve and each has called the service.
C21_Witness ==
    /\ main = "serving"
    /\ threads = 2
    /\ \A w \in {1, 2} : \E c \in BagToSet(calls) : c.worker = w

\* recv_from or send_to returns Err to worker w in this step.
Fails(w) == worker[w].pc # "failed" /\ worker'[w].pc = "failed"

\* Nothing more is called or sent by worker w in this step.
Silent(w) ==
    /\ \A c \in BagToSet(calls') : c.worker = w => CopiesIn(c, calls') = CopiesIn(c, calls)
    /\ \A m \in BagToSet(sent') : m.worker = w => CopiesIn(m, sent') = CopiesIn(m, sent)

FailureIsLocal ==
    \A w \in DOMAIN worker :
        /\ Fails(w) =>
              /\ \A v \in DOMAIN worker \ {w} : worker'[v] = worker[v]
              /\ main' = main /\ socket' = socket
        /\ worker[w].pc = "failed" => worker'[w] = worker[w] /\ Silent(w)

\* C22: an I/O error from recv_from or send_to ends the worker that got it
\* and no other: that worker receives and sends nothing further, the other
\* workers and the socket are as they were, and the caller of serve sees a
\* failure only when every worker has ended.
C22_FailureEndsOneWorker ==
    /\ [](main = "panicked" => \A w \in DOMAIN worker : Ended(w))
    /\ [][FailureIsLocal]_vars

\* One worker failed in send_to; the other has answered a later datagram and
\* waits in recv_from; serve is not over.
C22_Witness ==
    /\ main = "serving"
    /\ \E w, v \in DOMAIN worker :
          /\ worker[w].pc = "failed"
          /\ worker[v].pc = "recv"
          /\ \E m \in BagToSet(sent) : m.worker = w /\ ~m.ok /\ m.dgram = 1
          /\ \E m \in BagToSet(sent) : m.worker = v /\ m.ok /\ m.dgram = 2

\* A Server<Runner> exists, or existed when serve consumed it.
Runnable == main \in {"runner", "serving", "returned", "panicked"}

TypestateInv ==
    /\ typestate = "Runner" <=> Runnable
    /\ typestate = "Runner" <=> socket.some
    /\ main = "bind_failed" => typestate = "Dropped" /\ worker = <<>>
    /\ worker # <<>> => typestate = "Runner"
    /\ \A w \in DOMAIN worker : worker[w].pc # "no_socket"

\* C23: a Server<Runner> comes only from a bind that succeeded and always
\* holds Some socket, so no worker fails the expect on the socket, no worker
\* runs before bind, and a failed bind leaves no server to serve with.
C23_ServeNeedsBind ==
    /\ []TypestateInv
    /\ [][typestate # "Runner" /\ typestate' = "Runner"
             => main = "builder" /\ socket' = Some(<<>>)]_vars

\* After a successful bind a worker has received a datagram from the socket.
C23_Witness ==
    /\ typestate = "Runner"
    /\ socket.some
    /\ \E w \in DOMAIN worker : worker[w].pc = "run"

-----------------------------------------------------------------------------
(* Properties of the reply to an echoed request *)

\* No octet of the body can be the first octet of a compression pointer.
NoPointerOctet == \A i \in (HEADER_LEN + 1)..Len(buff) : buff[i] < 192

\* The request has been parsed to its last byte and the packet, given back
\* by the service unchanged, has been serialized.
Echoed == pc = "serialized" /\ round = 1 /\ pos = Len(buff)

\* C24: the serialization of the packet parsed from a request without
\* compression pointers and without bytes after its last item is the request,
\* byte for byte.
C24_EchoByteExact == Echoed /\ NoPointerOctet => out = buff

-----------------------------------------------------------------------------
(* Storage reserved by DnsPacket::try_from *)

\* Vec::with_capacity(n): room for n items (at least).
with_capacity(n) == n

\* The item slots of the four vectors try_from creates after the header.
Reserved(header) ==
    with_capacity(header.questions) + with_capacity(header.answers)
        + with_capacity(header.authority) + with_capacity(header.additional)

\* C25: the item slots try_from reserves are within the input length: a
\* question takes at least 5 bytes and a record at least 11, so one slot per
\* byte is more than the buffer can hold items.
C25_ReservedWithinInput == pc = "body" => Reserved(pkt.header) <= Len(buff)

-----------------------------------------------------------------------------
(* SpecRequests: one worker of a serving Server and one request waiting in
   the socket, drawn from a wider set of requests than SpecServe's *)

InitRequests ==
    /\ build \in Builds
    /\ buff = <<>>
    /\ main = "serving"
    /\ typestate = "Runner"
    /\ threads = 1
    /\ worker = [w \in Pool(threads) |-> Waiting]
    /\ \E src \in {"client1", "client2"}, bytes \in Requests :
          /\ arrivals = << [src |-> src, bytes |-> bytes, status |-> "unread"] >>
          /\ socket = Some(<< [id |-> 1, src |-> src, bytes |-> bytes] >>)
    /\ calls = EmptyBag
    /\ sent = EmptyBag
    /\ NameIdle /\ HeaderIdle /\ PacketIdle /\ TextIdle /\ CodeIdle

NextRequests ==
    \/ \E w \in DOMAIN worker : Recv(w)
    \/ \E w \in DOMAIN worker : Run(w)
    \/ \E w \in DOMAIN worker : Send(w)

SpecRequests == InitRequests /\ [][NextRequests]_vars

\* C26: every datagram passed to send_to has at most 512 bytes.
C26_RepliesFitUdp == \A m \in BagToSet(sent) : Len(m.bytes) <= 512

-----------------------------------------------------------------------------
(* Termination of Name::parse, checked under SpecNameFair *)

\* The loop of Name::parse runs until it returns: an iteration that can run
\* is run.
SpecNameFair == SpecName /\ WF_vars(NameLoop)

ParseEnds == <>(nst.status # "run")

\* The iteration pushed one label and added its length and its size octet to
\* the counter of the name, which stays within MAX_NAME_SIZE.
ConsumesLabel ==
    /\ nst'.status = "run" /\ nst'.jumps = nst.jumps
    /\ Len(nst'.name.labels) = Len(nst.name.labels) + 1
    /\ nst'.name.len = nst.name.len + Octet + 1
    /\ nst'.name.len <= MAX_NAME_SIZE

\* The iteration followed a pointer and counted it.
FollowsPointer ==
    /\ nst'.status = "run" /\ nst'.name = nst.name
    /\ nst'.jumps = nst.jumps + 1 /\ nst'.jumps <= MAX_JUMPS + 1

Returns == nst'.status \in {"ok", "err"}

\* C27: Name::parse terminates from every start position, and every
\* iteration of its loop consumes a label that is counted against the
\* 255-byte name limit, follows a pointer that is counted against the
\* 5-jump limit, or returns.
C27_ParseTerminates ==
    /\ ParseEnds
    /\ [][ nst.status = "run" => ConsumesLabel \/ FollowsPointer \/ Returns ]_vars

-----------------------------------------------------------------------------
(* The RDATA of an accepted record, checked under Spec *)

\* The bytes of the buffer that RecordData::parse decoded at offset p.
RDataWireLen(b, p, data) ==
    IF data.variant = "A" THEN 4
    ELSE IF data.variant \in {"Ns", "Cname"} THEN NameParse(b, p).size
    ELSE IF data.variant = "Mx" THEN 2 + NameParse(b, p + 2).size
    ELSE 0

\* ResourceRecord::parse returned Ok and the record was pushed.
AcceptsRecord ==
    /\ pc = "body" /\ Len(trail') = Len(trail) + 1
    /\ trail'[Len(trail')].section # "questions"

\* C28: when ResourceRecord::parse accepts a record, the bytes decoded as
\* RDATA are at most rdlen, and the record with its rdlen bytes of RDATA ends
\* inside the buffer.
C28_RDataInsideRdlen ==
    [][ AcceptsRecord =>
          LET t == trail'[Len(trail')]
              rr == pkt'[t.section][Len(pkt'[t.section])]
              rdata == t.start + t.size - rr.preamble.rdlen
          IN  /\ RDataWireLen(buff, rdata, rr.data) <= rr.preamble.rdlen
              /\ t.start + t.size <= Len(buff) ]_vars

-----------------------------------------------------------------------------
(* SpecChat: Chat::run on a parsed question, with the filter name in tname,
   the question in pkt and the position inside run in tres *)

\* The names Chat::new is given as its filter: the root and accepted texts.
ChatFilters == OtherNames

\* The names that are asked about.
ChatNames == { NewName } \cup { NameTryFrom(t).name : t \in GoodTexts }

\* QTYPE codes: A, AAAA, TXT, CNAME and *.
ChatQTypes == {1, 28, 16, 5, 255}

\* The datagrams the chat server parses: no question, or one question.
ChatRequests ==
    { PacketHeader(0, 0, 0, 0) } \cup
    { PacketHeader(1, 0, 0, 0) \o NameSerialize(n) \o <<0, t, 0, 1>> :
        n \in ChatNames, t \in ChatQTypes }

InitChat ==
    /\ build \in Builds
    /\ buff \in ChatRequests
    /\ pkt = PacketTryFrom(buff).packet
    /\ tname \in ChatFilters
    /\ \E files \in BOOLEAN : tres = [op |-> "run", txt_handler |-> files]
    /\ pc = "idle" /\ round = 0 /\ pos = 0 /\ trail = <<>>
    /\ result = NoResult /\ first = EmptyPacket /\ out = <<>>
    /\ NameIdle /\ HeaderIdle /\ CodeIdle /\ ServeIdle

ChatFrame ==
    UNCHANGED <<build, buff, tname, nameVars, headerVars, packetVars, codeVars, serveVars>>

\* The arm of match question.questions[0].qtype; AAAA and TXT are the codes
\* 28 and 16.
HandlerOf(qtype) ==
    IF qtype.variant = "A" THEN "a"
    ELSE IF qtype.variant = "Unknown" /\ qtype.n = 28 THEN "aaaa"
    ELSE IF qtype.variant = "Cname" THEN "cname"
    ELSE IF qtype.variant = "Unknown" /\ qtype.n = 16 THEN "txt"
    ELSE "refused"

\* Chat::run up to the call of the handler.
ChatRun ==
    /\ tres.op = "run"
    /\ tres' =
          IF pkt.header.questions > 0
          THEN IF pkt.questions = <<>> THEN [tres EXCEPT !.op = "panic"]
               ELSE IF HandlerOf(pkt.questions[1].qtype) = "txt" /\ ~tres.txt_handler
                    THEN [tres EXCEPT !.op = "none"]
               ELSE [tres EXCEPT !.op = HandlerOf(pkt.questions[1].qtype)]
          ELSE [tres EXCEPT !.op = "refused"]
    /\ ChatFrame

\* labels.nth(n) on iter_hierarchy.
nth(labels, n) == IF n < Len(labels) THEN Some(labels[n + 1]) ELSE None

\* The filter test and the label lookup shared by read_message and
\* TxtHandler::response.
SignalOf(filter, name) ==
    IF ~is_subdomain(filter, name) THEN [op |-> "refused"]
    ELSE LET signal == nth(iter_hierarchy(name), label_count(filter))
         IN  IF signal.some THEN [op |-> "answer", signal |-> signal.val]
             ELSE [op |-> "panic"]

\* AHandler::response and response_v6: read_message, then the answer.
AResponse ==
    /\ tres.op \in {"a", "aaaa"}
    /\ tres' = SignalOf(tname, pkt.questions[1].name)
    /\ ChatFrame

\* TxtHandler::response: the label is the key of read_chunk, which finds a
\* chunk or none.
TxtResponse ==
    /\ tres.op = "txt"
    /\ \E chunk \in BOOLEAN :
          tres' = LET r == SignalOf(tname, pkt.questions[1].name)
                  IN  IF r.op = "answer" /\ ~chunk THEN [op |-> "refused"] ELSE r
    /\ ChatFrame

NextChat == ChatRun \/ AResponse \/ TxtResponse

SpecChat == InitChat /\ [][NextChat]_vars

\* C30: in a handler, a question name that passes filter.is_subdomain has a
\* label at index filter.label_count(), so the expect on labels.nth never
\* fails, and questions[0] exists whenever Chat::run reads it.
C30_SubdomainHasSignal == tres.op # "panic"

-----------------------------------------------------------------------------
(* SpecServeFair: the serve loop with every worker thread scheduled *)

\* A worker that can take a datagram, call the service or send does so;
\* failures of recv_from, the arrival of datagrams and the calls of the main
\* thread are under no obligation.
WorkerFair(w) ==
    /\ WF_vars(w \in DOMAIN worker /\ Recv(w))
    /\ WF_vars(w \in DOMAIN worker /\ Run(w))
    /\ WF_vars(w \in DOMAIN worker /\ Send(w))

SpecServeFair == SpecServe /\ \A w \in 1..MaxThreads : WorkerFair(w)

\* The workers holding the i-th datagram.
Holders(i) == { w \in DOMAIN worker : worker[w].dgram = i }

\* recv_from hands a datagram to one worker: once read it is never read
\* again, and whatever is done for it is done by one worker.
ReceivedOnce ==
    /\ [](\A i \in DOMAIN arrivals :
            /\ Cardinality(Holders(i)) <= 1
            /\ InSocket(i) => Holders(i) = {}
            /\ Cardinality({ c.worker : c \in CallsFor(i) }
                               \cup { m.worker : m \in SendsFor(i) }
                               \cup Holders(i)) <= 1)
    /\ [][ \A i \in DOMAIN arrivals : ~InSocket(i) => arrivals'[i] = arrivals[i] ]_vars

\* The i-th datagram was dropped (try_from returned Err, or the service
\* returned None) or a reply to it was passed to send_to.
Served(i) ==
    /\ i \in DOMAIN arrivals
    /\ \/ Status(i) = "err"
       \/ \E c \in CallsFor(i) : ~c.reply.some
       \/ SendsFor(i) # {}

AllEnded == \A w \in DOMAIN worker : Ended(w)

\* C29: a datagram is received by one worker only; and while serve runs with
\* a worker alive, every datagram in the socket is eventually received and
\* then dropped or answered.
C29_EveryDatagramServed ==
    /\ ReceivedOnce
    /\ \A i \in 1..MaxDatagrams :
          (i \in DOMAIN arrivals /\ main = "serving") ~> (Served(i) \/ AllEnded)

=============================================================================
